---- MODULE Spec2Model ----
(***************************************************************************)
(* Kassia: the job state machine of the web interface (web/app.py with     *)
(* app/utils/job_database.py), the WIM workflow it drives                  *)
(* (app/core/wim_handler.py) and the driver / update integration           *)
(* aggregators (app/core/driver_integration.py,                            *)
(* app/core/update_integration.py).                                        *)
(*                                                                         *)
(* Strings that the code builds by concatenation are sequences of tokens,  *)
(* so that a prefix added by a handler is visible: None is the empty       *)
(* sequence and every exception message is a non-empty sequence.           *)
(***************************************************************************)
EXTENDS Integers, Sequences, FiniteSets, TLC

\* ------------------------------------------------------------------ bounds
MaxJobs == 1
ExtraStored == 2
MaxAssets == 2
MaxOrder == 2
MaxCalls == 1
MaxMountJobs == 3
MaxFiles == 1
MaxCatalog == 3
MaxLogs == 2
MaxPending == 2
MaxTailLogs == 11
MaxDismAssets == 3
MaxRepeats == 1
MaxMountPoints == 3
MaxConnections == 3
MaxOsId == 3

\* ------------------------------------------------------- program constants
DefaultLimit == 100
TotalSteps == 9
RecentLogsLimit == 5
RecentLogsLimitPython == 10

VARIABLES
    db,          \* the jobs table: job id -> row
    pc,          \* position of each job's background task
    args,        \* skip_drivers / skip_updates passed to each job's task
    assets,      \* assets_summary of each job's build
    wf,          \* WimWorkflow / WimHandler state of each job's build
    stepWrites,  \* history: the step_number values passed to update_job
    raised,      \* history: the exception that a stage of the job raised
    cleanups,    \* history: emergency cleanup attempts, with the status seen
    stages,      \* history: the stages each job's build has started, in order
    serverUp,    \* FALSE once the shutdown handler has run
    booted,      \* TRUE once JobStatus.__init__ has reconciled the store
    stored0,     \* history: the jobs table as the starting process found it
    drvStats,    \* DriverIntegrator.integration_stats
    updStats,    \* UpdateIntegrator.integration_stats
    calls,       \* integrate calls made on the current integrators
    lastCall,    \* input and return value of the latest manager call
    mountDir,    \* the build whose image DISM holds mounted at mountPoint, or 0
    mountPc,     \* position of each concurrent build in its mount stage
    mountedImages, \* WimHandler.mounted_images of each build: mountPoint tracked
    single,      \* input and result of the latest single-asset integration
    resolved,    \* input and output of the latest asset discovery
    storeGen,    \* which JobDatabase class the process has opened, or "none"
    jobsT,       \* the jobs table as SQLite holds it: job id -> column values
    logsT,       \* the job_logs table, in insertion order
    io,          \* the latest store call: what was written, what was read
    queue,       \* pending broadcasts: _broadcast_queue, or the tasks created
    initialized, \* JobStatus._initialized
    built,       \* the snapshot the latest broadcast_job_update task sent
    dismRunning, \* the DISM subprocesses of the job that have not terminated
    dismLoop,    \* the job's integration loop: the asset it is at, the results
    cli,         \* the command-line run: its job row and its position
    storeUp,     \* FALSE while JobDatabase.update_job fails to write
    reply,       \* the latest cancel request and the endpoint's answer
    mountWindow, \* where the run is: before its mount, mounted, unmounting
    tracked,     \* WimHandler.mounted_images of one handler: its keys
    dismMounted, \* the mount points at which DISM holds an image mounted
    held,        \* history: mounts reported successful and not unmounted since
    handlerCall, \* the latest call on the handler and what it returned
    connections, \* JobStatus.active_connections, in list order
    accepted,    \* history: every connection that was ever registered
    sendLoop,    \* the send loop of one broadcast: its iterator, its sends
    confBuild    \* one build request: its OS id, its device, how far it got

vars == <<db, pc, args, assets, wf, stepWrites, raised, cleanups, stages,
          serverUp, booted, stored0, drvStats, updStats, calls, lastCall,
          mountDir, mountPc, mountedImages, single, resolved,
          storeGen, jobsT, logsT, io, queue, initialized, built,
          dismRunning, dismLoop, cli, storeUp,
          reply, mountWindow, tracked, dismMounted, held, handlerCall,
          connections, accepted, sendLoop, confBuild>>

jobVars == <<db, pc, args, assets, wf, stepWrites, raised, cleanups, stages, serverUp>>
bootVars == <<booted, stored0>>
aggVars == <<drvStats, updStats, calls, lastCall>>
mountVars == <<mountDir, mountPc, mountedImages>>
execVars == <<single>>
resolveVars == <<resolved>>
storeVars == <<storeGen, jobsT, logsT, io>>
castVars == <<queue, initialized, built>>
dismVars == <<dismRunning, dismLoop>>
cliVars == <<cli>>
liveVars == <<storeUp>>
replyVars == <<reply>>
windowVars == <<mountWindow>>
handlerVars == <<tracked, dismMounted, held, handlerCall>>
connVars == <<connections, accepted, sendLoop>>
confVars == <<confBuild>>
moreVars == <<replyVars, windowVars, handlerVars, connVars, confVars>>
restVars == <<cliVars, liveVars, moreVars>>
extVars == <<castVars, dismVars, restVars>>
sideVars == <<mountVars, execVars, resolveVars, storeVars, extVars>>

Jobs == 1..MaxJobs

None == <<>>
Terminal == {"completed", "failed", "cancelled"}

\* ------------------------------------------------------------ job database

\* JobStatus.create_job: the row written for a new build request.
NewJobData(id, skip_drivers, skip_updates) ==
    [ id            |-> id,
      status        |-> "created",
      progress      |-> 0,
      step_number   |-> 0,
      total_steps   |-> TotalSteps,
      created_at    |-> id,
      started_at    |-> None,
      completed_at  |-> None,
      error         |-> None,
      skip_drivers  |-> skip_drivers,
      skip_updates  |-> skip_updates ]

\* UPDATE jobs SET k = v, ... on one row: the named columns are overwritten.
SetColumns(row, updates) ==
    [k \in DOMAIN row |-> IF k \in DOMAIN updates THEN updates[k] ELSE row[k]]

\* JobDatabase.update_job: UPDATE ... WHERE id = ?; no row, no change.
DbUpdateJob(d, id, updates) ==
    IF id \in DOMAIN d THEN [d EXCEPT ![id] = SetColumns(d[id], updates)] ELSE d

\* A run of JobStatus.update_job calls made without an await between them.
RECURSIVE UpdateJobs(_, _, _)
UpdateJobs(d, id, us) ==
    IF us = <<>> THEN d
    ELSE UpdateJobs(DbUpdateJob(d, id, Head(us)), id, Tail(us))

\* The updates of a run that the store keeps: all of them while the store
\* writes; while it fails (JobDatabase.update_job catches the error and
\* returns False, JobStatus.update_job logs a warning) any of them is lost.
RECURSIVE KeptUpdates(_, _)
KeptUpdates(us, mask) ==
    IF us = <<>> THEN <<>>
    ELSE (IF Head(mask) THEN <<Head(us)>> ELSE <<>>) \o KeptUpdates(Tail(us), Tail(mask))

Persisted(us) ==
    IF storeUp THEN {us}
    ELSE {KeptUpdates(us, mask) : mask \in [1..Len(us) -> BOOLEAN]}

\* The step_number values a run of updates writes, in order.
RECURSIVE StepsOf(_)
StepsOf(us) ==
    IF us = <<>> THEN <<>>
    ELSE (IF "step_number" \in DOMAIN Head(us) THEN <<Head(us).step_number>> ELSE <<>>)
         \o StepsOf(Tail(us))


\* ------------------------------------------------------------ orchestrator

Timestamp == <<"ts">>

MsgNoSbi == <<"Cannot execute WIM workflow without SBI">>
MsgVerify == <<"REAL mount verification failed: No Windows directory">>
MsgRestart == <<"Application restart during execution">>
MsgShutdown == <<"Application shutdown during execution">>
MsgKeyError == <<"'failed_count'">>
MsgKeyErrorOk == <<"'successful_count'">>
DismPrefix == <<"DISM Error in REAL workflow: ">>
UnexpectedPrefix == <<"Unexpected error in REAL workflow: ">>

\* str(e) of the exceptions the stages raise.
MsgOf(stage, type) == <<stage, type>>

NoExc == [type |-> "none", msg |-> None, stage |-> "none", hadResources |-> FALSE]
NoAssets == [sbi |-> FALSE, drivers |-> FALSE, updates |-> FALSE]
NoWorkflow == [bound |-> FALSE, temp_wim |-> FALSE, mounted |-> FALSE, exported |-> FALSE]

\* execute_build_job_with_logging: the updates it writes.
U_Loading == [status |-> "running", started_at |-> Timestamp, step_number |-> 1, progress |-> 10]
U_Discovering == [step_number |-> 2, progress |-> 20]
U_Discovered == [step_number |-> 3, progress |-> 30]

\* execute_cli_wim_workflow_real: the updates it writes.
W_Running == [status |-> "running", started_at |-> Timestamp, step_number |-> 1, progress |-> 5]
W_Preparing == [step_number |-> 2, progress |-> 15]
W_Mounting == [step_number |-> 3, progress |-> 25]
W_Drivers == [step_number |-> 4, progress |-> 40]
W_DriversDone == [step_number |-> 4, progress |-> 50]
W_Updates == [step_number |-> 5, progress |-> 65]
W_UpdatesDone == [step_number |-> 5, progress |-> 75]
W_Exporting == [step_number |-> 6, progress |-> 85]
W_Cleanup == [step_number |-> 7, progress |-> 95]
W_Completed == [status |-> "completed", step_number |-> 8, progress |-> 100,
                completed_at |-> Timestamp]

\* update_job(status="failed", error=..., completed_at=...) of the failure paths.
FailedUpdate(error) == [status |-> "failed", error |-> error, completed_at |-> Timestamp]

\* Mutant: the handler reports a fixed text and drops str(e).
DismErrorMsg_Generic(msg) == DismPrefix \o <<"workflow failed">>

\* error_msg of the two except clauses of execute_cli_wim_workflow_real.
DismErrorMsg(msg) == DismPrefix \o msg
UnexpectedErrorMsg(msg) == UnexpectedPrefix \o msg

\* One uninterrupted segment of job j's background task: the updates us are
\* written, the task moves to position p with workflow state w.
Segment(j, us, p, w, exc, started, cleanup) ==
    /\ \E kept \in Persisted(us) :
         /\ db' = UpdateJobs(db, j, kept)
         /\ stepWrites' = [stepWrites EXCEPT ![j] = @ \o StepsOf(us)]
    /\ pc' = [pc EXCEPT ![j] = p]
    /\ wf' = [wf EXCEPT ![j] = w]
    /\ raised' = [raised EXCEPT ![j] = exc]
    /\ stages' = [stages EXCEPT ![j] = @ \o started]
    /\ cleanups' = [cleanups EXCEPT ![j] =
                      IF cleanup # "none" /\ j \in DOMAIN db'
                      THEN @ \o <<[seen |-> db'[j].status, outcome |-> cleanup]>>
                      ELSE @]
    /\ UNCHANGED <<args, serverUp, bootVars, aggVars, sideVars>>


\* The exception a stage raises, with what the workflow held when it began.
Exc(j, stage, type, msg) ==
    [type |-> type, msg |-> msg, stage |-> stage,
     hadResources |-> wf[j].temp_wim \/ wf[j].mounted]

\* except DismError (web/app.py 1631-1662): status failed, then the emergency
\* cleanup; with `workflow` unbound the cleanup attempt itself raises and
\* the handler finishes at once.
DismErrorHandler(j, e, before, w) ==
    Segment(j, before \o <<FailedUpdate(DismErrorMsg(e.msg))>>,
            IF w.bound THEN "emergency" ELSE "done", w, e, <<>>,
            IF w.bound THEN "attempted" ELSE "raised")

\* Mutant: the handler logs the error and leaves the job's row alone.
ExceptionHandler_NoUpdate(j, e, before, w) ==
    Segment(j, before, "done", w, e, <<>>, "none")

\* except Exception (web/app.py 1664-1686): status failed, no cleanup.
ExceptionHandler(j, e, before, w) ==
    Segment(j, before \o <<FailedUpdate(UnexpectedErrorMsg(e.msg))>>,
            "done", w, e, <<>>, "none")

\* A stage of execute_cli_wim_workflow_real raises e.
WorkflowRaises(j, e, before, w) ==
    IF e.type = "DismError"
    THEN DismErrorHandler(j, e, before, w)
    ELSE ExceptionHandler(j, e, before, w)

\* except Exception of execute_build_job_with_logging (web/app.py 1814-1834).
BuildJobRaises(j, e, before) ==
    Segment(j, before \o <<FailedUpdate(e.msg)>>, "done", wf[j], e, <<>>, "none")

\* Step 4 of the workflow up to its first await (web/app.py 1470-1564).
UpdateBranch(a, found) ==
    IF ~a.skip_updates /\ found.updates
    THEN [us |-> <<W_Updates>>, p |-> "updates", started |-> <<"updates">>]
    ELSE [us |-> <<W_UpdatesDone, W_Exporting>>, p |-> "export", started |-> <<"export">>]

\* Step 3 of the workflow up to its first await (web/app.py 1395-1468).
DriverBranch(a, found) ==
    IF ~a.skip_drivers /\ found.drivers
    THEN [us |-> <<W_Drivers>>, p |-> "drivers", started |-> <<"drivers">>]
    ELSE LET u == UpdateBranch(a, found)
         IN  [us |-> <<W_DriversDone>> \o u.us, p |-> u.p, started |-> u.started]

\* POST /api/build: create_job and add_task.
StartBuild(j, skip_drivers, skip_updates) ==
    /\ serverUp
    /\ j \notin DOMAIN db
    /\ j = Cardinality(DOMAIN db) + 1
    /\ db' = db @@ (j :> NewJobData(j, skip_drivers, skip_updates))
    /\ pc' = [pc EXCEPT ![j] = "queued"]
    /\ args' = [args EXCEPT ![j] = [skip_drivers |-> skip_drivers,
                                    skip_updates |-> skip_updates]]
    /\ UNCHANGED <<assets, wf, stepWrites, raised, cleanups, stages, serverUp,
                   bootVars, aggVars, sideVars>>

\* execute_build_job_with_logging up to its first sleep.
TaskStart(j) ==
    /\ pc[j] = "queued"
    /\ Segment(j, <<U_Loading>>, "config", wf[j], NoExc, <<"config">>, "none")
    /\ UNCHANGED assets

\* ConfigLoader.create_kassia_config returns or raises; up to the next sleep.
LoadConfig(j) ==
    /\ pc[j] = "config"
    /\ \/ Segment(j, <<U_Discovering>>, "discovery", wf[j], NoExc, <<"discovery">>, "none")
       \/ BuildJobRaises(j, Exc(j, "config", "ValueError", MsgOf("config", "ValueError")), <<>>)
    /\ UNCHANGED assets

\* Asset discovery, then execute_cli_wim_workflow_real up to its first await.
DiscoverAndStart(j) ==
    /\ pc[j] = "discovery"
    /\ \/ /\ BuildJobRaises(j, Exc(j, "discovery", "Exception",
                                   MsgOf("discovery", "Exception")), <<>>)
          /\ UNCHANGED assets
       \/ \E found \in [sbi : BOOLEAN, drivers : BOOLEAN, updates : BOOLEAN] :
            /\ assets' = [assets EXCEPT ![j] = found]
            /\ IF ~found.sbi
               THEN Segment(j, <<U_Discovered, FailedUpdate(MsgNoSbi)>>, "done",
                            wf[j], NoExc, <<>>, "none")
               ELSE \/ Segment(j, <<U_Discovered, W_Running, W_Preparing>>, "prepare",
                               [wf[j] EXCEPT !.bound = TRUE], NoExc, <<"prepare">>, "none")
                    \/ WorkflowRaises(j, Exc(j, "handler", "DismError",
                                             MsgOf("handler", "DismError")),
                                      <<U_Discovered, W_Running>>, wf[j])


\* workflow.prepare_wim_for_modification returns or raises; a failed copy
\* removes the temp file (wim_handler.py 131-135).
PrepareReturns(j) ==
    /\ pc[j] = "prepare"
    /\ \/ Segment(j, <<W_Mounting>>, "mount", [wf[j] EXCEPT !.temp_wim = TRUE],
                  NoExc, <<"mount">>, "none")
       \/ \E type \in {"DismError", "OSError"} :
            WorkflowRaises(j, Exc(j, "prepare", type, MsgOf("prepare", type)), <<>>, wf[j])
    /\ UNCHANGED assets

\* workflow.mount_wim_for_modification returns or raises, then the mount is
\* verified and steps 3 and 4 run up to their first await.
MountReturns(j) ==
    /\ pc[j] = "mount"
    /\ \/ LET b == DriverBranch(args[j], assets[j])
          IN  Segment(j, b.us, b.p, [wf[j] EXCEPT !.mounted = TRUE], NoExc,
                      b.started, "none")
       \/ WorkflowRaises(j, Exc(j, "verify", "Exception", MsgVerify),
                         <<FailedUpdate(MsgVerify)>>, [wf[j] EXCEPT !.mounted = TRUE])
       \/ \E type \in {"DismError", "OSError"} :
            WorkflowRaises(j, Exc(j, "mount", type, MsgOf("mount", type)), <<>>, wf[j])
    /\ UNCHANGED assets

\* integrate_drivers_for_device returns: success, failures counted, or a
\* summary without counts: that of a raised error has no failed_count, that
\* of "no compatible drivers" has no successful_count (KeyError).
DriversReturn(j) ==
    /\ pc[j] = "drivers"
    /\ \/ LET u == UpdateBranch(args[j], assets[j])
          IN  Segment(j, <<W_DriversDone>> \o u.us, u.p, wf[j], NoExc, u.started, "none")
       \/ \E msg \in {MsgKeyError, MsgKeyErrorOk} :
            WorkflowRaises(j, Exc(j, "drivers", "KeyError", msg), <<>>, wf[j])
    /\ UNCHANGED assets

\* integrate_updates_for_os returns, likewise; then step 5 up to its await.
UpdatesReturn(j) ==
    /\ pc[j] = "updates"
    /\ \/ Segment(j, <<W_UpdatesDone, W_Exporting>>, "export", wf[j], NoExc,
                  <<"export">>, "none")
       \/ \E msg \in {MsgKeyError, MsgKeyErrorOk} :
            WorkflowRaises(j, Exc(j, "updates", "KeyError", msg), <<>>, wf[j])
    /\ UNCHANGED assets

\* workflow.finalize_and_export_wim returns or raises: the unmount fails
\* (the mount stays tracked), the export fails, or the exported file cannot
\* be stat'ed.
ExportReturns(j) ==
    /\ pc[j] = "export"
    /\ \/ Segment(j, <<W_Cleanup>>, "cleanup",
                  [wf[j] EXCEPT !.mounted = FALSE, !.exported = TRUE], NoExc,
                  <<"cleanup">>, "none")
       \/ WorkflowRaises(j, Exc(j, "export", "DismError", MsgOf("unmount", "DismError")),
                         <<>>, wf[j])
       \/ WorkflowRaises(j, Exc(j, "export", "DismError", MsgOf("export", "DismError")),
                         <<>>, [wf[j] EXCEPT !.mounted = FALSE])
       \/ WorkflowRaises(j, Exc(j, "export", "OSError", MsgOf("stat", "OSError")),
                         <<>>, [wf[j] EXCEPT !.mounted = FALSE, !.exported = TRUE])
    /\ UNCHANGED assets

\* workflow.cleanup_workflow(keep_export=True) returns; the job completes.
CleanupReturns(j) ==
    /\ pc[j] = "cleanup"
    /\ Segment(j, <<W_Completed>>, "done",
               [NoWorkflow EXCEPT !.bound = TRUE, !.exported = wf[j].exported],
               raised[j], <<>>, "none")
    /\ UNCHANGED assets

\* The emergency workflow.cleanup_workflow(keep_export=False) returns.
EmergencyCleanupReturns(j) ==
    /\ pc[j] = "emergency"
    /\ Segment(j, <<>>, "done", [NoWorkflow EXCEPT !.bound = TRUE], raised[j],
               <<>>, "none")
    /\ UNCHANGED assets

\* DELETE /api/jobs/{job_id}: JobStatus.cancel_job.
CancelJob(j) ==
    /\ serverUp
    /\ j \in DOMAIN db
    /\ \E kept \in Persisted(<<[status |-> "cancelled", completed_at |-> Timestamp]>>) :
         db' = UpdateJobs(db, j, kept)
    /\ UNCHANGED <<pc, args, assets, wf, stepWrites, raised, cleanups, stages,
                   serverUp, bootVars, aggVars, sideVars>>

\* JobDatabase.get_all_jobs(limit=100): the ids of the rows that
\* SELECT ... ORDER BY created_at DESC LIMIT ? returns.
GetAllJobs(d, limit) ==
    {id \in DOMAIN d :
        Cardinality({o \in DOMAIN d : d[o].created_at > d[id].created_at}) < limit}

\* for job in jobs: if job['status'] == 'running': update_job(job['id'], updates)
MarkRunning(d, ids, updates) ==
    [id \in DOMAIN d |->
        IF id \in ids /\ d[id].status = "running" THEN SetColumns(d[id], updates) ELSE d[id]]

\* shutdown_event: every running job that get_all_jobs returns is marked failed.
Shutdown ==
    /\ serverUp
    /\ serverUp' = FALSE
    /\ \E ids \in (IF storeUp THEN {GetAllJobs(db, DefaultLimit)}
                   ELSE SUBSET GetAllJobs(db, DefaultLimit)) :
         db' = MarkRunning(db, ids, FailedUpdate(MsgShutdown))
    /\ UNCHANGED <<pc, args, assets, wf, stepWrites, raised, cleanups, stages,
                   bootVars, aggVars, sideVars>>

\* ------------------------------------------------- startup reconciliation

\* A row left in the jobs table by an earlier process.
StoredRow(id, status) ==
    [NewJobData(id, FALSE, FALSE) EXCEPT
        !.status = status,
        !.started_at = IF status = "created" THEN None ELSE Timestamp,
        !.completed_at = IF status \in Terminal THEN Timestamp ELSE None]

\* JobStatus._load_jobs_from_database, run by JobStatus.__init__.
LoadJobsFromDatabase ==
    /\ ~booted
    /\ booted' = TRUE
    /\ db' = MarkRunning(db, GetAllJobs(db, DefaultLimit), FailedUpdate(MsgRestart))
    /\ UNCHANGED <<pc, args, assets, wf, stepWrites, raised, cleanups, stages,
                   serverUp, stored0, aggVars, sideVars>>

\* ------------------------------------------------- integration aggregators

\* The members of the DriverType and UpdateType enums.
DriverTypes == {"inf", "appx", "exe"}
UpdateTypes == {"msu", "cab", "exe", "msi"}
TypesOf(kind) == IF kind = "drivers" THEN DriverTypes ELSE UpdateTypes
OsIds == {10, 11}
Mounts == {"ok", "missing", "no_windows"}
Outcomes == {"ok", "error", "exception"}

\* DriverIntegrator.__init__ / UpdateIntegrator.__init__: integration_stats.
NewStats(kind) ==
    IF kind = "drivers"
    THEN [total |-> 0, successful |-> 0, failed |-> 0,
          inf |-> 0, appx |-> 0, exe |-> 0]
    ELSE [total |-> 0, successful |-> 0, failed |-> 0,
          msu |-> 0, cab |-> 0, exe |-> 0, msi |-> 0]

\* Mutant: the list is processed as given.
SortedByOrder_AsGiven(s) == s

\* sorted(assets, key=lambda a: a.order): Python's sort is stable.
RECURSIVE SortedByOrder(_)
SortedByOrder(s) ==
    IF s = <<>> THEN <<>>
    ELSE LET front == SortedByOrder(SubSeq(s, 1, Len(s) - 1))
             x == s[Len(s)]
             NotAfter(y) == y.order <= x.order
             After(y) == y.order > x.order
         IN  SelectSeq(front, NotAfter) \o <<x>> \o SelectSeq(front, After)

\* _validate_driver_compatibility / _validate_update_compatibility.
ValidateCompatibility(asset, os_id) ==
    IF asset.supported_os = {} THEN TRUE ELSE os_id \in asset.supported_os

\* strategy of _integrate_single_driver / _integrate_single_update.
MethodOf(kind, type) ==
    IF kind = "drivers"
    THEN IF type = "inf" THEN "DISM"
         ELSE IF type \in {"appx", "exe"} THEN "YUNONA" ELSE "SKIPPED"
    ELSE IF type \in {"msu", "cab"} THEN "DISM"
         ELSE IF type \in {"exe", "msi"} THEN "YUNONA" ELSE "SKIPPED"

\* _integrate_single_driver / _integrate_single_update, for an executor that
\* answers with outcome "ok" or "error": the result and the statistics.
IntegrateSingle(kind, asset, outcome, stats) ==
    LET method == MethodOf(kind, asset.type)
        success == method # "SKIPPED" /\ outcome = "ok"
    IN  [result |-> [asset |-> asset, success |-> success, method |-> method,
                     duration |-> "set"],
         stats  |-> IF success THEN [stats EXCEPT ![asset.type] = @ + 1] ELSE stats]

\* One pass of the for loop of integrate_drivers / integrate_updates.
LoopBody(kind, asset, outcome, acc) ==
    IF outcome = "exception" /\ MethodOf(kind, asset.type) # "SKIPPED"
    THEN [results   |-> Append(acc.results,
                               [asset |-> asset, success |-> FALSE, method |-> "ERROR",
                                duration |-> "None"]),
          attempted |-> Append(acc.attempted, asset.name),
          stats     |-> [acc.stats EXCEPT !.failed = @ + 1]]
    ELSE LET one == IntegrateSingle(kind, asset, outcome, acc.stats)
         IN  [results   |-> Append(acc.results, one.result),
              attempted |-> Append(acc.attempted, asset.name),
              stats     |-> IF one.result.success
                            THEN [one.stats EXCEPT !.successful = @ + 1]
                            ELSE [one.stats EXCEPT !.failed = @ + 1]]

\* Mutant: the loop ends at the first asset that does not succeed.
RECURSIVE IntegrationLoop_StopsAtFailure(_, _, _, _)
IntegrationLoop_StopsAtFailure(kind, sorted, outcomes, acc) ==
    IF sorted = <<>> THEN acc
    ELSE LET next == LoopBody(kind, Head(sorted), outcomes[Head(sorted).name], acc)
         IN  IF next.results[Len(next.results)].success
             THEN IntegrationLoop_StopsAtFailure(kind, Tail(sorted), outcomes, next)
             ELSE next

RECURSIVE IntegrationLoop(_, _, _, _)
IntegrationLoop(kind, sorted, outcomes, acc) ==
    IF sorted = <<>> THEN acc
    ELSE IntegrationLoop(kind, Tail(sorted), outcomes,
                         LoopBody(kind, Head(sorted), outcomes[Head(sorted).name], acc))

\* The two checks that open integrate_drivers / integrate_updates: the mount
\* point exists and holds a Windows directory, else DismError.
CheckMount(mount) ==
    IF mount = "missing" THEN "DismError"
    ELSE IF mount = "no_windows" THEN "DismError"
    ELSE "none"

\* Mutant: the Yunona directory is made under the mount point before the
\* mount point is checked.
Integrate_WritesBeforeCheck(kind, list, mount, outcomes, stats) ==
    IF CheckMount(mount) # "none"
    THEN [raises |-> TRUE, error |-> CheckMount(mount), wrote |-> TRUE,
          results |-> <<>>, attempted |-> <<>>, stats |-> stats]
    ELSE LET acc == IntegrationLoop(kind, SortedByOrder(list), outcomes,
                                    [results |-> <<>>, attempted |-> <<>>,
                                     stats |-> [stats EXCEPT !.total = Len(list)]])
         IN  [raises |-> FALSE, error |-> "none", wrote |-> TRUE,
              results |-> acc.results, attempted |-> acc.attempted,
              stats |-> acc.stats]

\* DriverIntegrator.integrate_drivers / UpdateIntegrator.integrate_updates:
\* raises unless the mount point exists and holds a Windows directory; only
\* then is the Yunona directory made under the mount point (wrote) and the
\* loop run.
Integrate(kind, list, mount, outcomes, stats) ==
    IF CheckMount(mount) # "none"
    THEN [raises |-> TRUE, error |-> CheckMount(mount), wrote |-> FALSE,
          results |-> <<>>, attempted |-> <<>>, stats |-> stats]
    ELSE LET acc == IntegrationLoop(kind, SortedByOrder(list), outcomes,
                                    [results |-> <<>>, attempted |-> <<>>,
                                     stats |-> [stats EXCEPT !.total = Len(list)]])
         IN  [raises |-> FALSE, error |-> "none", wrote |-> TRUE,
              results |-> acc.results, attempted |-> acc.attempted,
              stats |-> acc.stats]

\* Mutant: every result is counted as a success.
SuccessfulCount_All(results) == Len(results)

\* successful_count = sum(1 for r in results if r.success)
SuccessfulCount(results) ==
    Cardinality({i \in DOMAIN results : results[i].success})

\* DriverIntegrationManager.integrate_drivers_for_device /
\* UpdateIntegrationManager.integrate_updates_for_os: the returned summary
\* and the integrator's statistics after the call.
IntegrateFor(kind, list, os_id, mount, outcomes, stats) ==
    LET IsCompatible(asset) == ValidateCompatibility(asset, os_id)
        compatible == SelectSeq(list, IsCompatible)
        early == [success |-> TRUE, results |-> <<>>, has_counts |-> FALSE,
                  successful_count |-> 0, failed_count |-> 0, stats |-> stats]
    IN  IF list = <<>> \/ compatible = <<>>
        THEN [ret |-> early, attempted |-> <<>>, compatible |-> compatible, stats |-> stats,
              error |-> "none", wrote |-> FALSE]
        ELSE LET r == Integrate(kind, compatible, mount, outcomes, stats)
                 ok == SuccessfulCount(r.results)
                 bad == Len(r.results) - ok
             IN  [ret |-> IF r.raises
                          THEN [early EXCEPT !.success = FALSE]
                          ELSE [success |-> bad = 0, results |-> r.results,
                                has_counts |-> TRUE, successful_count |-> ok,
                                failed_count |-> bad, stats |-> r.stats],
                  attempted |-> r.attempted,
                  compatible |-> compatible,
                  stats |-> r.stats,
                  error |-> r.error,
                  wrote |-> r.wrote]

\* lastCall before any call.
NoCall == [kind |-> "none", input |-> <<>>, os_id |-> 10, mount |-> "ok",
           outcomes |-> <<>>,
           compatible |-> <<>>, attempted |-> <<>>,
           error |-> "none", wrote |-> FALSE,
           ret |-> [success |-> TRUE, results |-> <<>>, has_counts |-> FALSE,
                    successful_count |-> 0, failed_count |-> 0,
                    stats |-> NewStats("drivers")]]

\* The asset lists a call is made with: each asset is named by its place in
\* the list.
AssetLists(kind) ==
    UNION {[1..n -> [order : 1..MaxOrder, type : TypesOf(kind), supported_os : {{}, {10}}]]
           : n \in 0..MaxAssets}

Named(attrs) ==
    [i \in DOMAIN attrs |->
        [name |-> i, order |-> attrs[i].order, type |-> attrs[i].type,
         supported_os |-> attrs[i].supported_os]]

Call(kind, list, os_id, mount, outcomes, stats) ==
    LET r == IntegrateFor(kind, list, os_id, mount, outcomes, stats)
    IN  /\ lastCall' = [kind |-> kind, input |-> list, os_id |-> os_id, mount |-> mount,
                        outcomes |-> outcomes,
                        compatible |-> r.compatible, attempted |-> r.attempted,
                        error |-> r.error, wrote |-> r.wrote,
                        ret |-> r.ret]
        /\ calls' = calls + 1

\* driver_manager.integrate_drivers_for_device(...) on the current integrator.
IntegrateDriversForDevice ==
    /\ calls < MaxCalls
    /\ \E attrs \in AssetLists("drivers"), os_id \in OsIds, mount \in Mounts :
         \E outcomes \in [DOMAIN attrs -> Outcomes] :
            /\ Call("drivers", Named(attrs), os_id, mount, outcomes, drvStats)
            /\ drvStats' = IntegrateFor("drivers", Named(attrs), os_id, mount,
                                        outcomes, drvStats).stats
    /\ UNCHANGED <<updStats, jobVars, bootVars, sideVars>>

\* update_manager.integrate_updates_for_os(...) on the current integrator.
IntegrateUpdatesForOs ==
    /\ calls < MaxCalls
    /\ \E attrs \in AssetLists("updates"), os_id \in OsIds, mount \in Mounts :
         \E outcomes \in [DOMAIN attrs -> Outcomes] :
            /\ Call("updates", Named(attrs), os_id, mount, outcomes, updStats)
            /\ updStats' = IntegrateFor("updates", Named(attrs), os_id, mount,
                                        outcomes, updStats).stats
    /\ UNCHANGED <<drvStats, jobVars, bootVars, sideVars>>

\* The manager is called again on the same integrator, with the arguments
\* of the call before.
IntegrateAgain ==
    /\ lastCall.kind # "none"
    /\ calls >= 1
    /\ calls <= MaxRepeats
    /\ LET kind == lastCall.kind
           stats == IF kind = "drivers" THEN drvStats ELSE updStats
           after == IntegrateFor(kind, lastCall.input, lastCall.os_id, lastCall.mount,
                                 lastCall.outcomes, stats).stats
       IN  /\ Call(kind, lastCall.input, lastCall.os_id, lastCall.mount,
                   lastCall.outcomes, stats)
           /\ drvStats' = IF kind = "drivers" THEN after ELSE drvStats
           /\ updStats' = IF kind = "updates" THEN after ELSE updStats
    /\ UNCHANGED <<jobVars, bootVars, sideVars>>

\* ------------------------------------------------- single-asset integration

\* Phrases the executors look for in the DISM output.
NotApplicable == "not applicable"
AlreadyInstalled == "already installed"

\* str.lower() on the tokens of a DISM output.
Lower(text) ==
    [i \in DOMAIN text |->
        IF text[i] = "Already Installed" THEN AlreadyInstalled
        ELSE IF text[i] = "Not Applicable" THEN NotApplicable
        ELSE text[i]]

\* phrase in text
Has(text, phrase) == \E i \in DOMAIN text : text[i] = phrase

\* What DISM prints.
Texts == { <<>>, <<NotApplicable>>, <<AlreadyInstalled>>, <<"Already Installed">>,
           <<"access denied">>, <<NotApplicable, AlreadyInstalled>> }

\* How the DISM subprocess ends: it exits with a return code and a text on
\* stderr or stdout, wait_for times out, or starting it raises.
DismResponses ==
    {[how |-> "exit", returncode |-> rc, where |-> w, text |-> t] :
        rc \in {0, 1}, w \in {"stderr", "stdout"}, t \in Texts}
    \cup {[how |-> h, returncode |-> 1, where |-> "stderr", text |-> <<>>] :
            h \in {"timeout", "exception"}}

\* What one asset meets: the payload files found under its path, an empty
\* update file, the DISM response, and whether copying works.
AssetEnvs ==
    {[files |-> f, empty |-> e, dism |-> d, copy |-> c] :
        f \in 0..MaxFiles, e \in BOOLEAN, d \in DismResponses, c \in {"ok", "raises"}}

Stderr(d) == IF d.where = "stderr" THEN d.text ELSE <<>>
Stdout(d) == IF d.where = "stdout" THEN d.text ELSE <<>>

NoStaged == [payload |-> 0, scripts |-> {}, sidecars |-> {}]

\* DriverIntegrationResult / UpdateIntegrationResult as the executors build
\* it: duration is left at its default.
Result(success, method, message, staged) ==
    [success |-> success, method |-> method, message |-> message,
     duration |-> "None", staged |-> staged]

\* DriverIntegrator._integrate_inf_driver.
IntegrateInfDriver(env) ==
    IF env.files = 0
    THEN Result(FALSE, "DISM", <<"No INF files found in driver directory">>, NoStaged)
    ELSE IF env.dism.how = "timeout"
    THEN Result(FALSE, "DISM", <<"DISM operation timed out (300 seconds)">>, NoStaged)
    ELSE IF env.dism.how = "exception"
    THEN Result(FALSE, "DISM", <<"DISM execution failed: ", "exception">>, NoStaged)
    ELSE IF env.dism.returncode = 0
    THEN Result(TRUE, "DISM", <<"INF driver installed successfully">>, NoStaged)
    ELSE Result(FALSE, "DISM",
                <<"DISM failed with exit code ", env.dism.returncode, ": ">>
                    \o Stderr(env.dism), NoStaged)

\* DriverIntegrator._stage_appx_driver / _stage_exe_driver: the driver
\* directory is copied and one install script is written beside it.
StageDriver(script, env) ==
    IF env.files = 0
    THEN Result(FALSE, "YUNONA", <<"No files found in driver directory">>, NoStaged)
    ELSE IF env.copy = "raises"
    THEN Result(FALSE, "YUNONA", <<"Failed to stage driver: ", "exception">>, NoStaged)
    ELSE Result(TRUE, "YUNONA", <<"driver staged successfully">>,
                [payload |-> env.files, scripts |-> {script}, sidecars |-> {}])

StageAppxDriver(env) == StageDriver("install_appx.ps1", env)
StageExeDriver(env) == StageDriver("install_exe.cmd", env)

\* DriverIntegrator._integrate_single_driver: routing by driver_type, then
\* the duration is set.
IntegrateSingleDriver(type, env) ==
    LET result == IF type = "inf" THEN IntegrateInfDriver(env)
                  ELSE IF type = "appx" THEN StageAppxDriver(env)
                  ELSE IF type = "exe" THEN StageExeDriver(env)
                  ELSE Result(FALSE, "SKIPPED", <<"Unknown driver type: ", type>>, NoStaged)
    IN  [result EXCEPT !.duration = "set"]

\* UpdateIntegrator._integrate_dism_update.
IntegrateDismUpdate(type, env) ==
    IF env.files = 0
    THEN Result(FALSE, "DISM", <<"Update file not found: ", "path">>, NoStaged)
    ELSE IF env.empty
    THEN Result(FALSE, "DISM", <<"Update file is empty">>, NoStaged)
    ELSE IF env.dism.how = "timeout"
    THEN Result(FALSE, "DISM", <<"DISM operation timed out (600 seconds)">>, NoStaged)
    ELSE IF env.dism.how = "exception"
    THEN Result(FALSE, "DISM", <<"DISM execution failed: ", "exception">>, NoStaged)
    ELSE IF env.dism.returncode = 0
    THEN Result(TRUE, "DISM", <<type, " update installed successfully">>, NoStaged)
    ELSE IF Has(Lower(Stderr(env.dism)), NotApplicable)
            \/ Has(Lower(Stdout(env.dism)), NotApplicable)
    THEN Result(FALSE, "DISM", <<"Update ", NotApplicable, " to this image">>, NoStaged)
    ELSE IF Has(Lower(Stderr(env.dism)), AlreadyInstalled)
            \/ Has(Lower(Stdout(env.dism)), AlreadyInstalled)
    THEN Result(TRUE, "DISM", <<"Update ", AlreadyInstalled>>, NoStaged)
    ELSE Result(FALSE, "DISM",
                <<"DISM failed with exit code ", env.dism.returncode, ": ">>
                    \o Stderr(env.dism), NoStaged)

\* UpdateIntegrator._stage_update_to_yunona: the update's directory is
\* copied, install_update.cmd and update_metadata.json are written.
StageUpdateToYunona(type, env) ==
    IF env.files = 0
    THEN Result(FALSE, "YUNONA", <<"Update file not found: ", "path">>, NoStaged)
    ELSE IF env.copy = "raises"
    THEN Result(FALSE, "YUNONA", <<"Failed to stage ", type, " update: ", "exception">>,
                NoStaged)
    ELSE Result(TRUE, "YUNONA", <<type, " update staged successfully">>,
                [payload |-> env.files, scripts |-> {"install_update.cmd"},
                 sidecars |-> {"update_metadata.json"}])

\* Mutant: EXE updates are handed to DISM.
IntegrateSingleUpdate_ExeViaDism(type, env) ==
    LET result == IF type \in {"msu", "cab", "exe"} THEN IntegrateDismUpdate(type, env)
                  ELSE IF type \in {"msi"} THEN StageUpdateToYunona(type, env)
                  ELSE Result(FALSE, "SKIPPED", <<"Unknown update type: ", type>>, NoStaged)
    IN  [result EXCEPT !.duration = "set"]

\* UpdateIntegrator._integrate_single_update: routing by update_type, then
\* the duration is set.
IntegrateSingleUpdate(type, env) ==
    LET result == IF type \in {"msu", "cab"} THEN IntegrateDismUpdate(type, env)
                  ELSE IF type \in {"exe", "msi"} THEN StageUpdateToYunona(type, env)
                  ELSE Result(FALSE, "SKIPPED", <<"Unknown update type: ", type>>, NoStaged)
    IN  [result EXCEPT !.duration = "set"]

\* single before any call.
NoSingle == [kind |-> "none", type |-> "none",
             env |-> [files |-> 0, empty |-> FALSE, copy |-> "ok",
                      dism |-> [how |-> "exit", returncode |-> 0, where |-> "stderr",
                                text |-> <<>>]],
             result |-> Result(FALSE, "none", <<>>, NoStaged)]

\* The per-type counter of integration_stats that a success increments.
CountSuccess(stats, type, result) ==
    IF result.success /\ type \in DOMAIN stats
    THEN [stats EXCEPT ![type] = @ + 1]
    ELSE stats

\* A new DriverIntegrator runs _integrate_single_driver on one driver, of a
\* known type or of a type tag outside DriverType.
IntegrateSingleDriverCall ==
    /\ single = NoSingle
    /\ calls = 0
    /\ \E type \in DriverTypes \cup {"other"}, env \in AssetEnvs :
         LET result == IntegrateSingleDriver(type, env)
         IN  /\ single' = [kind |-> "drivers", type |-> type, env |-> env,
                           result |-> result]
             /\ drvStats' = CountSuccess(drvStats, type, result)
    /\ UNCHANGED <<updStats, calls, lastCall, jobVars, bootVars, mountVars, resolveVars, storeVars, extVars>>

\* A new UpdateIntegrator runs _integrate_single_update on one update.
IntegrateSingleUpdateCall ==
    /\ single = NoSingle
    /\ calls = 0
    /\ \E type \in UpdateTypes \cup {"other"}, env \in AssetEnvs :
         LET result == IntegrateSingleUpdate(type, env)
         IN  /\ single' = [kind |-> "updates", type |-> type, env |-> env,
                           result |-> result]
             /\ updStats' = CountSuccess(updStats, type, result)
    /\ UNCHANGED <<drvStats, calls, lastCall, jobVars, bootVars, mountVars, resolveVars, storeVars, extVars>>

InitSingle == single = NoSingle

\* DriverIntegrator() / UpdateIntegrator(): the workflow builds new ones.
NewIntegrators ==
    /\ calls > 0 \/ single # NoSingle
    /\ drvStats' = NewStats("drivers")
    /\ updStats' = NewStats("updates")
    /\ calls' = 0
    /\ lastCall' = NoCall
    /\ single' = NoSingle
    /\ UNCHANGED <<jobVars, bootVars, mountVars, resolveVars, storeVars, extVars>>

\* ---------------------------------------------------------- asset discovery

\* The device ids of the device a build is for.
DeviceIds == {1}

\* The descriptors (*.json) found under drivers/ and updates/, in the order
\* rglob yields them, each named by its place: its order, the operating
\* systems and devices it lists, and whether its payload is there (a driver
\* file in the driver directory; the update's download file, of a known
\* update type).
DriverCatalogs ==
    UNION {[1..n -> [order : 1..MaxOrder, supported_os : {{}, {10}, {11}},
                     supported_devices : {{}, {1}, {2}}, loadable : BOOLEAN]]
           : n \in 0..MaxCatalog}

UpdateCatalogs ==
    UNION {[1..n -> [order : 1..MaxOrder, supported_os : {{}, {10}, {11}},
                     supported_devices : {{}}, loadable : BOOLEAN]]
           : n \in 0..MaxCatalog}

NamedConfigs(attrs) ==
    [i \in DOMAIN attrs |->
        [name |-> i, order |-> attrs[i].order, supported_os |-> attrs[i].supported_os,
         supported_devices |-> attrs[i].supported_devices,
         loadable |-> attrs[i].loadable]]

\* Mutant: the operating system is not looked at.
LoadFromConfig_AnyOs(config, os_id) ==
    config.loadable

\* _load_driver_from_config / _load_update_from_config return an asset:
\* the descriptor lists no operating system or lists os_id, and its payload
\* is found. supportedDevices is read and stored, not compared.
LoadFromConfig(config, os_id) ==
    IF config.supported_os # {} /\ os_id \notin config.supported_os
    THEN FALSE
    ELSE config.loadable

\* Mutant: assets of equal order come out in reverse discovery order.
GetAssets_TiesReversed(catalog, os_id) ==
    LET Loads(config) == LoadFromConfig(config, os_id)
        found == SelectSeq(catalog, Loads)
    IN  SortedByOrder([i \in 1..Len(found) |-> found[Len(found) + 1 - i]])

\* LocalAssetProvider.get_drivers / get_updates: the assets that load, in
\* the order rglob yields their descriptors, then list.sort by order
\* (stable).
GetAssets(catalog, os_id) ==
    LET Loads(config) == LoadFromConfig(config, os_id)
    IN  SortedByOrder(SelectSeq(catalog, Loads))

\* resolved before any discovery.
NoResolve == [kind |-> "none", catalog |-> <<>>, device |-> {}, os_id |-> 10,
              out |-> <<>>, repeated |-> FALSE, out2 |-> <<>>]

\* provider.get_drivers(device, os_id), once per build.
GetDrivers ==
    /\ resolved = NoResolve
    /\ \E attrs \in DriverCatalogs, os_id \in OsIds :
         resolved' = [kind |-> "drivers", catalog |-> NamedConfigs(attrs),
                      device |-> DeviceIds, os_id |-> os_id,
                      out |-> GetAssets(NamedConfigs(attrs), os_id),
                      repeated |-> FALSE, out2 |-> <<>>]
    /\ UNCHANGED <<jobVars, bootVars, aggVars, mountVars, execVars, storeVars, extVars>>

\* provider.get_updates(os_id), once per build.
GetUpdates ==
    /\ resolved = NoResolve
    /\ \E attrs \in UpdateCatalogs, os_id \in OsIds :
         resolved' = [kind |-> "updates", catalog |-> NamedConfigs(attrs),
                      device |-> DeviceIds, os_id |-> os_id,
                      out |-> GetAssets(NamedConfigs(attrs), os_id),
                      repeated |-> FALSE, out2 |-> <<>>]
    /\ UNCHANGED <<jobVars, bootVars, aggVars, mountVars, execVars, storeVars, extVars>>

\* The same call made again: same provider, same arguments, the files under
\* the assets path untouched, so rglob yields the descriptors as before.
GetAssetsAgain ==
    /\ resolved.kind # "none"
    /\ ~resolved.repeated
    /\ resolved' = [resolved EXCEPT !.repeated = TRUE,
                                    !.out2 = GetAssets(resolved.catalog, resolved.os_id)]
    /\ UNCHANGED <<jobVars, bootVars, aggVars, mountVars, execVars, storeVars, extVars>>

InitResolve == resolved = NoResolve

\* ------------------------------------------------- the job store (SQLite)

\* Python values are written as they print: "None", "True", "{}"; what
\* SQLite holds in a column is written "NULL", "1", "'{}'".
StoreIds == {1}
JobFields == {"status", "started_at", "completed_at", "error", "results", "skip_drivers"}
Dicts == {"{}", "{final}"}

\* The job records a caller may hand to create_job.
JobRecords ==
    [status : {"created", "failed"}, started_at : {"None", "ts"},
     completed_at : {"None"}, error : {"None", "boom"}, results : Dicts,
     skip_drivers : {"True", "False"}]

\* The keyword arguments a caller may hand to update_job.
JobUpdates ==
    { [status |-> "running", started_at |-> "ts"],
      [status |-> "failed", error |-> "boom", completed_at |-> "ts"],
      [status |-> "completed", completed_at |-> "ts", results |-> "{final}"] }

\* json.dumps / json.loads on the values results takes.
JsonDumps(v) ==
    IF v = "{}" THEN "'{}'" ELSE IF v = "{final}" THEN "'{final}'" ELSE "'null'"

JsonLoads(text) ==
    IF text = "'{}'" THEN "{}" ELSE IF text = "'{final}'" THEN "{final}" ELSE "None"

\* sqlite3 parameter binding: None is NULL, a bool is an integer.
Bind(v) ==
    IF v = "None" THEN "NULL"
    ELSE IF v = "True" THEN "1"
    ELSE IF v = "False" THEN "0"
    ELSE v

\* dict(row): NULL is None, every other column comes back as stored.
Fetch(c) == IF c = "NULL" THEN "None" ELSE c

\* INSERT INTO jobs of JobDatabase.create_job: src/app/utils names every
\* column; src/Python/app/utils leaves started_at, completed_at and error to
\* their default.
CreateJobRow(gen, job) ==
    [f \in JobFields |->
        IF f = "results" THEN JsonDumps(job[f])
        ELSE IF gen = "Python" /\ f \in {"started_at", "completed_at", "error"} THEN "NULL"
        ELSE Bind(job[f])]

\* UPDATE jobs SET ... of JobDatabase.update_job: results is dumped as JSON
\* (src/app/utils: only when it is a dict).
UpdateJobRow(gen, row, updates) ==
    [f \in JobFields |->
        IF f \notin DOMAIN updates THEN row[f]
        ELSE IF f = "results" /\ (gen = "Python" \/ updates[f] \in Dicts)
        THEN JsonDumps(updates[f])
        ELSE Bind(updates[f])]

\* JobDatabase.get_job: the row as a dict, results parsed; src/Python/app/utils
\* also converts the flags with bool().
GetJobDict(gen, row) ==
    [f \in JobFields |->
        IF f = "results"
        THEN IF row[f] # "NULL" THEN JsonLoads(row[f]) ELSE "{}"
        ELSE IF gen = "Python" /\ f = "skip_drivers"
        THEN IF row[f] = "1" THEN "True" ELSE "False"
        ELSE Fetch(row[f])]

NoIo == [op |-> "none", written |-> <<>>, read |-> <<>>, ok |-> TRUE]

\* init_job_database: the process opens the store of its source tree.
InitJobDatabase(gen) ==
    /\ storeGen = "none"
    /\ storeGen' = gen
    /\ UNCHANGED <<jobsT, logsT, io>>
    /\ UNCHANGED <<jobVars, bootVars, aggVars, mountVars, execVars, resolveVars, castVars,
                   dismVars, restVars>>

\* job_db.create_job(job_data): the INSERT succeeds or fails (the id is
\* taken, the database is locked) and False is returned.
StoreCreateJob(id, job) ==
    /\ storeGen # "none"
    /\ io.op \in {"none", "delete", "get"}
    /\ IF id \in DOMAIN jobsT
       THEN /\ io' = [op |-> "create_failed", written |-> <<>>, read |-> <<>>, ok |-> FALSE]
            /\ UNCHANGED jobsT
       ELSE /\ jobsT' = jobsT @@ (id :> CreateJobRow(storeGen, job))
            /\ io' = [op |-> "create", written |-> job, read |-> <<>>, ok |-> TRUE]
    /\ UNCHANGED <<storeGen, logsT>>
    /\ UNCHANGED <<jobVars, bootVars, aggVars, mountVars, execVars, resolveVars, castVars,
                   dismVars, restVars>>

\* The jobs table after job_db.update_job(job_id, updates): no row with that
\* id, no change; when the statement fails (ok is FALSE: the database is
\* locked, the disk is full) nothing is written and False is returned.
UpdatedJobs(id, updates, ok) ==
    [j \in DOMAIN jobsT |->
        IF j = id /\ ok THEN UpdateJobRow(storeGen, jobsT[j], updates) ELSE jobsT[j]]

\* job_db.update_job(job_id, updates).
StoreUpdateJob(id, updates, ok) ==
    /\ storeGen # "none"
    /\ io.op \in {"create", "get"}
    /\ jobsT' = UpdatedJobs(id, updates, ok)
    /\ io' = [op |-> "update", written |-> updates, read |-> <<>>, ok |-> ok]
    /\ UNCHANGED <<storeGen, logsT>>
    /\ UNCHANGED <<jobVars, bootVars, aggVars, mountVars, execVars, resolveVars, castVars,
                   dismVars, restVars>>

\* job_db.get_job(job_id) after a write.
StoreGetJob(id) ==
    /\ storeGen # "none"
    /\ io.op \in {"create", "update"}
    /\ io' = [io EXCEPT !.op = "get",
                        !.read = IF id \in DOMAIN jobsT
                                 THEN GetJobDict(storeGen, jobsT[id]) ELSE <<>>]
    /\ UNCHANGED <<storeGen, jobsT, logsT>>
    /\ UNCHANGED <<jobVars, bootVars, aggVars, mountVars, execVars, resolveVars, castVars,
                   dismVars, restVars>>

\* job_db.delete_job(job_id): src/app/utils deletes the job and SQLite
\* cascades to its logs; src/Python/app/utils deletes the logs, then the job.
StoreDeleteJob(id) ==
    /\ storeGen # "none"
    /\ id \in DOMAIN jobsT
    /\ jobsT' = [j \in DOMAIN jobsT \ {id} |-> jobsT[j]]
    /\ LET Kept(log) == log.job_id # id
       IN  logsT' = SelectSeq(logsT, Kept)
    /\ io' = [op |-> "delete", written |-> <<>>, read |-> <<>>, ok |-> TRUE]
    /\ UNCHANGED storeGen
    /\ UNCHANGED <<jobVars, bootVars, aggVars, mountVars, execVars, resolveVars, castVars,
                   dismVars, restVars>>

\* job_db.add_job_log(job_id, ...), as the build's logger calls it while the
\* job runs and after it has been deleted: the jobs table of src/app/utils
\* is referenced by a foreign key, enforced, so the INSERT for a missing job
\* fails and is logged; job_logs of src/Python/app/utils has no foreign key.
StoreAddJobLog(id) ==
    /\ storeGen # "none"
    /\ io.op # "none"
    /\ Len(logsT) < MaxLogs
    /\ logsT' = IF storeGen = "app" /\ id \notin DOMAIN jobsT
                THEN logsT
                ELSE Append(logsT, [job_id |-> id, timestamp |-> Len(logsT) + 1])
    /\ UNCHANGED <<storeGen, jobsT, io>>
    /\ UNCHANGED <<jobVars, bootVars, aggVars, mountVars, execVars, resolveVars, castVars,
                   dismVars, restVars>>

\* ------------------------------------------------- JobStatus and its broadcasts

\* job_db.get_job_logs(job_id, limit=n): the timestamps of the rows that
\* ORDER BY timestamp DESC LIMIT n (src/app/utils) or ORDER BY timestamp ASC
\* LIMIT n (src/Python/app/utils) returns, in that order. Rows are inserted
\* with increasing timestamps.
GetJobLogs(gen, logs, id, limit) ==
    LET Mine(log) == log.job_id = id
        mine == SelectSeq(logs, Mine)
        n == IF Len(mine) < limit THEN Len(mine) ELSE limit
    IN  IF gen = "app"
        THEN [i \in 1..n |-> mine[Len(mine) + 1 - i].timestamp]
        ELSE [i \in 1..n |-> mine[i].timestamp]

\* The job_update message: get_job's dict with the recent logs added.
JobUpdateMessage(gen, jobs, logs, id) ==
    [type |-> "job_update", job_id |-> id,
     data |-> GetJobDict(gen, jobs[id]),
     logs |-> GetJobLogs(gen, logs, id,
                         IF gen = "app" THEN RecentLogsLimit ELSE RecentLogsLimitPython)]

\* asyncio.Queue() has no maxsize: put_nowait appends. asyncio.create_task
\* adds a task to the event loop, likewise.
PutNowait(q, message) == Append(q, message)

\* What JobStatus.update_job and add_job_log leave pending: src/web/app.py
\* queues the message once initialize_async has run and drops it before;
\* src/Python/web/app.py creates a broadcast_job_update task.
Enqueue(q, message) ==
    IF storeGen = "Python" THEN PutNowait(q, [type |-> "task", job_id |-> message.job_id])
    ELSE IF initialized THEN PutNowait(q, message)
    ELSE q

NoBuilt == [type |-> "none"]

\* The job the build is for, as JobStatus.create_job writes it.
CreatedJob == [status |-> "created", started_at |-> "None", completed_at |-> "None",
               error |-> "None", results |-> "{}", skip_drivers |-> "False"]

\* JobStatus.add_connection: the first websocket runs initialize_async.
AddConnection ==
    /\ storeGen = "app"
    /\ ~initialized
    /\ initialized' = TRUE
    /\ UNCHANGED <<queue, built, storeVars>>
    /\ UNCHANGED <<jobVars, bootVars, aggVars, mountVars, execVars, resolveVars, dismVars,
                   restVars>>

\* JobStatus.update_job(job_id, **kwargs): the store is written; on success
\* the job is read back and its snapshot is left pending, on failure a
\* warning is logged and nothing else happens.
JobStatusUpdateJob(id, updates, ok) ==
    /\ storeGen # "none"
    /\ id \in DOMAIN jobsT
    /\ io.op \in {"create", "get"}
    /\ Len(queue) < MaxPending
    /\ jobsT' = UpdatedJobs(id, updates, ok)
    /\ io' = [op |-> "update", written |-> updates, read |-> <<>>, ok |-> ok]
    /\ queue' = IF ok
                THEN Enqueue(queue, JobUpdateMessage(storeGen, jobsT', logsT, id))
                ELSE queue
    /\ UNCHANGED <<storeGen, logsT, initialized, built>>
    /\ UNCHANGED <<jobVars, bootVars, aggVars, mountVars, execVars, resolveVars, dismVars,
                   restVars>>

\* JobStatus.add_job_log(job_id, message): the row is inserted and a job_log
\* message (src/Python/web/app.py: a broadcast task) is left pending.
JobStatusAddJobLog(id) ==
    /\ storeGen # "none"
    /\ id \in DOMAIN jobsT
    /\ Len(logsT) < MaxTailLogs
    /\ Len(queue) < MaxPending
    /\ logsT' = Append(logsT, [job_id |-> id, timestamp |-> Len(logsT) + 1])
    /\ queue' = Enqueue(queue, [type |-> "job_log", job_id |-> id])
    /\ UNCHANGED <<storeGen, jobsT, io, initialized, built>>
    /\ UNCHANGED <<jobVars, bootVars, aggVars, mountVars, execVars, resolveVars, dismVars,
                   restVars>>

\* The event loop runs what is pending: _broadcast_worker takes a message
\* and sends it; a broadcast_job_update task reads the job and its logs and
\* sends the snapshot it builds.
BroadcastWorker ==
    /\ queue # <<>>
    /\ queue' = Tail(queue)
    /\ built' = IF Head(queue).type = "task" /\ Head(queue).job_id \in DOMAIN jobsT
                THEN JobUpdateMessage(storeGen, jobsT, logsT, Head(queue).job_id)
                ELSE built
    /\ UNCHANGED <<initialized, storeVars>>
    /\ UNCHANGED <<jobVars, bootVars, aggVars, mountVars, execVars, resolveVars, dismVars,
                   restVars>>

\* ------------------------------------------- DISM subprocesses of one job

\* The assets one job hands to DISM, one after the other: INF drivers, then
\* MSU / CAB updates.
DismAssets == 1..MaxDismAssets

\* The loop awaits the subprocess of asset `at` or is between assets.
NoDismLoop == [at |-> 1, awaiting |-> FALSE, results |-> <<>>]

\* asyncio.create_subprocess_exec(dism, ...) for the next asset; when it
\* raises, the asset's result is a failure and the loop goes on.
DismStart ==
    /\ ~dismLoop.awaiting
    /\ dismLoop.at \in DismAssets
    /\ \/ /\ dismRunning' = dismRunning \cup {dismLoop.at}
          /\ dismLoop' = [dismLoop EXCEPT !.awaiting = TRUE]
       \/ /\ dismLoop' = [dismLoop EXCEPT !.at = @ + 1,
                                          !.results = Append(@, "exception")]
          /\ UNCHANGED dismRunning
    /\ UNCHANGED <<jobVars, bootVars, aggVars, mountVars, execVars, resolveVars,
                   storeVars, castVars, restVars>>

\* A DISM subprocess terminates; when it is the one awaited, communicate()
\* returns and the asset's result follows from the return code.
DismExits(p) ==
    /\ p \in dismRunning
    /\ dismRunning' = dismRunning \ {p}
    /\ IF dismLoop.awaiting /\ p = dismLoop.at
       THEN \E result \in {"ok", "failed"} :
               dismLoop' = [at |-> dismLoop.at + 1, awaiting |-> FALSE,
                            results |-> Append(dismLoop.results, result)]
       ELSE UNCHANGED dismLoop
    /\ UNCHANGED <<jobVars, bootVars, aggVars, mountVars, execVars, resolveVars,
                   storeVars, castVars, restVars>>

\* asyncio.wait_for(process.communicate(), timeout=...) raises TimeoutError:
\* communicate() is cancelled, the subprocess is neither killed nor waited
\* for, the asset's result is "timed out" and the loop goes on.
DismTimesOut ==
    /\ dismLoop.awaiting
    /\ dismLoop' = [at |-> dismLoop.at + 1, awaiting |-> FALSE,
                    results |-> Append(dismLoop.results, "timeout")]
    /\ UNCHANGED dismRunning
    /\ UNCHANGED <<jobVars, bootVars, aggVars, mountVars, execVars, resolveVars,
                   storeVars, castVars, restVars>>

\* ------------------------------------------- command-line orchestrator

\* The command-line run before `kassia --device ... --os-id ...` is started.
NoCli == [pc |-> "idle", status |-> "none", step_number |-> 0, progress |-> 0,
          error |-> None, completed_at |-> None,
          skip_drivers |-> FALSE, skip_updates |-> FALSE, found |-> NoAssets]

\* update_cli_job: the named columns of the run's row are overwritten; the
\* run moves to position p.
UpdateCliJob(updates, p) ==
    /\ cli' = [SetColumns(cli, updates) EXCEPT !.pc = p]
    /\ UNCHANGED <<jobVars, bootVars, aggVars, mountVars, execVars, resolveVars,
                   storeVars, castVars, dismVars, liveVars, moreVars>>

\* The updates written when a stage of the workflow is entered.
CliStageUpdate(stage) ==
    CASE stage = "prepare" -> [step_number |-> 2, progress |-> 15]
      [] stage = "mount"   -> [step_number |-> 3, progress |-> 25]
      [] stage = "drivers" -> [step_number |-> 5, progress |-> 50]
      [] stage = "updates" -> [step_number |-> 6, progress |-> 70]
      [] stage = "export"  -> [step_number |-> 7, progress |-> 85]
      [] stage = "cleanup" -> [step_number |-> 8, progress |-> 95]

\* The stage the workflow enters after `stage` has returned: the driver and
\* the update stage run only when not skipped and when assets were found.
CliStageAfter(stage) ==
    LET drivers == ~cli.skip_drivers /\ cli.found.drivers
        updates == ~cli.skip_updates /\ cli.found.updates
    IN  CASE stage = "prepare" -> "mount"
          [] stage = "mount"   -> IF drivers THEN "drivers"
                                  ELSE IF updates THEN "updates" ELSE "export"
          [] stage = "drivers" -> IF updates THEN "updates" ELSE "export"
          [] stage = "updates" -> "export"
          [] stage = "export"  -> "cleanup"

\* cli(): create_cli_job writes the row of the run with status created.
CreateCliJob(skip_drivers, skip_updates) ==
    /\ cli.pc = "idle"
    /\ UpdateCliJob([status |-> "created", skip_drivers |-> skip_drivers,
                     skip_updates |-> skip_updates], "config")

\* ConfigLoader.create_kassia_config returns, or raises: the row becomes
\* failed and the process exits.
CliLoadConfig ==
    /\ cli.pc = "config"
    /\ \/ UpdateCliJob(<<>>, "discovery")
       \/ UpdateCliJob(FailedUpdate(MsgOf("config", "ValueError")), "exit")

\* initialize_directories and discover_and_display_assets return, or one of
\* them raises and the `except Exception` of cli() marks the row failed.
CliDiscover ==
    /\ cli.pc = "discovery"
    /\ \/ \E found \in [sbi : BOOLEAN, drivers : BOOLEAN, updates : BOOLEAN] :
            UpdateCliJob([found |-> found], "workflow")
       \/ UpdateCliJob(FailedUpdate(MsgOf("discovery", "Exception")), "exit")

\* execute_cli_wim_workflow up to its first await: without an SBI the row
\* becomes failed and None is returned, else the row becomes running.
CliWorkflowStart ==
    /\ cli.pc = "workflow"
    /\ IF ~cli.found.sbi
       THEN UpdateCliJob(FailedUpdate(MsgNoSbi), "report")
       ELSE UpdateCliJob([status |-> "running", step_number |-> 2, progress |-> 15],
                         "prepare")

\* The awaited call of a stage returns and the next stage is entered (after
\* the last one the row becomes completed), or the stage raises and the
\* except clause marks the row failed and returns None.
CliStageReturns ==
    /\ cli.pc \in {"prepare", "mount", "drivers", "updates", "export", "cleanup"}
    /\ \/ IF cli.pc = "cleanup"
          THEN UpdateCliJob([status |-> "completed", step_number |-> 9,
                             progress |-> 100, completed_at |-> Timestamp], "report")
          ELSE UpdateCliJob(CliStageUpdate(CliStageAfter(cli.pc)),
                            CliStageAfter(cli.pc))
       \/ \E type \in {"DismError", "Exception"} :
            UpdateCliJob(FailedUpdate(MsgOf(cli.pc, type)), "report")

\* cli() prints the summary of the run and the process exits.
CliReport ==
    /\ cli.pc = "report"
    /\ UpdateCliJob(<<>>, "exit")

\* Ctrl-C while the process runs: `except KeyboardInterrupt` of cli() marks
\* the row cancelled and the process exits.
CliKeyboardInterrupt ==
    /\ cli.pc \notin {"idle", "exit"}
    /\ UpdateCliJob([status |-> "cancelled", completed_at |-> Timestamp], "exit")

InitCli == cli = NoCli

\* ------------------------------------------------ store write failures

\* sqlite3 starts to raise in JobDatabase.update_job (database locked, disk
\* full, file gone): from now on a write of the web process may be lost.
StoreFails ==
    /\ storeUp
    /\ storeUp' = FALSE
    /\ UNCHANGED <<jobVars, bootVars, aggVars, mountVars, execVars, resolveVars,
                   storeVars, castVars, dismVars, cliVars, moreVars>>

\* The store writes again.
StoreRecovers ==
    /\ ~storeUp
    /\ storeUp' = TRUE
    /\ UNCHANGED <<jobVars, bootVars, aggVars, mountVars, execVars, resolveVars,
                   storeVars, castVars, dismVars, cliVars, moreVars>>

\* ------------------------------------------------ the cancel endpoint

\* The ids a cancel request can name: those of the jobs and one more that
\* no job ever has.
RequestIds == 1..(MaxJobs + 1)

NoReply == [id |-> 0, answer |-> "none"]

\* DELETE /api/jobs/{job_id}: JobStatus.cancel_job runs
\* UPDATE jobs SET status = 'cancelled', completed_at = ? WHERE id = ?;
\* JobDatabase.update_job returns True when the statement ran, whether or
\* not a row matched, and the endpoint then answers {"status": "cancelled"};
\* only a raised sqlite error makes it answer 404.
CancelEndpoint(id) ==
    /\ serverUp
    /\ db' = IF storeUp
             THEN DbUpdateJob(db, id, [status |-> "cancelled", completed_at |-> Timestamp])
             ELSE db
    /\ reply' = [id |-> id, answer |-> IF storeUp THEN "cancelled" ELSE "404"]
    /\ UNCHANGED <<pc, args, assets, wf, stepWrites, raised, cleanups, stages,
                   serverUp, bootVars, aggVars, mountVars, execVars, resolveVars,
                   storeVars, castVars, dismVars, cliVars, liveVars, windowVars,
                   handlerVars, connVars, confVars>>

\* ------------------------------------------- the mount window of one run

\* The assets of the run that are drivers; the others are updates. The
\* driver stage hands its assets to DISM before the update stage starts.
DismDrivers == {a \in DismAssets : a = 1}
DismUpdates == DismAssets \ DismDrivers

\* workflow.mount_wim_for_modification returns and the Windows directory is
\* found, or the mount or its verification raises and the workflow ends.
WindowMountReturns ==
    /\ mountWindow = "before"
    /\ mountWindow' \in {"mounted", "failed"}
    /\ UNCHANGED <<jobVars, bootVars, aggVars, mountVars, execVars, resolveVars,
                   storeVars, castVars, dismVars, cliVars, liveVars, replyVars,
                   handlerVars, connVars, confVars>>

\* The driver stage, then the update stage, start DISM for their next asset;
\* both run between the verified mount and finalize_and_export_wim.
WindowDismStart ==
    /\ mountWindow = "mounted"
    /\ DismStart

\* Both stages have returned: finalize_and_export_wim starts the unmount
\* with commit.
WindowUnmountBegins ==
    /\ mountWindow = "mounted"
    /\ ~dismLoop.awaiting
    /\ dismLoop.at \notin DismAssets
    /\ mountWindow' = "unmounting"
    /\ UNCHANGED <<jobVars, bootVars, aggVars, mountVars, execVars, resolveVars,
                   storeVars, castVars, dismVars, cliVars, liveVars, replyVars,
                   handlerVars, connVars, confVars>>

\* ------------------------------------------------------- one WimHandler

\* The mount points one WimHandler is called with.
MountPoints == 1..MaxMountPoints

DismOutcomes == {"ok", "failed"}

NoHandlerCall == [op |-> "none", mp |-> 0, ret |-> "none", unmount |-> "none",
                  export |-> "none", file |-> FALSE]

\* DISM /Unmount-Wim /Discard of _cleanup_failed_mount, errors ignored: the
\* image DISM holds at the mount point, if any, is released or stays.
AfterCleanupFailedMount(mounted, mp) == {mounted, mounted \ {mp}}

\* WimHandler.mount_wim(wim_path, mount_point): a missing file raises at
\* once; a tracked mount point returns its MountInfo; else DISM /Mount-Wim
\* runs (it can succeed only on a free path) and the Windows directory is
\* looked for: the mount is tracked when both succeed, and otherwise
\* _cleanup_failed_mount runs and DismError is raised.
HandlerMountWim(mp, wim_exists, dism, verified) ==
    /\ IF ~wim_exists
       THEN /\ handlerCall' = [NoHandlerCall EXCEPT !.op = "mount", !.mp = mp,
                                                    !.ret = "DismError"]
            /\ UNCHANGED <<tracked, dismMounted, held>>
       ELSE IF mp \in tracked
       THEN /\ handlerCall' = [NoHandlerCall EXCEPT !.op = "mount", !.mp = mp,
                                                    !.ret = "MountInfo"]
            /\ held' = held \cup {mp}
            /\ UNCHANGED <<tracked, dismMounted>>
       ELSE LET mounts == dism = "ok" /\ mp \notin dismMounted
                after  == IF mounts THEN dismMounted \cup {mp} ELSE dismMounted
            IN  IF mounts /\ verified
                THEN /\ dismMounted' = after
                     /\ tracked' = tracked \cup {mp}
                     /\ held' = held \cup {mp}
                     /\ handlerCall' = [NoHandlerCall EXCEPT !.op = "mount", !.mp = mp,
                                                             !.ret = "MountInfo"]
                ELSE /\ dismMounted' \in AfterCleanupFailedMount(after, mp)
                     /\ handlerCall' = [NoHandlerCall EXCEPT !.op = "mount", !.mp = mp,
                                                             !.ret = "DismError"]
                     /\ UNCHANGED <<tracked, held>>
    /\ UNCHANGED <<jobVars, bootVars, aggVars, mountVars, execVars, resolveVars,
                   storeVars, castVars, dismVars, cliVars, liveVars, replyVars,
                   windowVars, connVars, confVars>>

\* Mutant: an unmount that failed forgets the mount point all the same.
UnmountWimResult_ForgetsOnFailure(mp, dism) ==
    IF mp \notin tracked
    THEN [ret |-> "True", ran |-> FALSE, tracked |-> tracked, dismMounted |-> dismMounted]
    ELSE IF dism = "ok" /\ mp \in dismMounted
    THEN [ret |-> "True", ran |-> TRUE, tracked |-> tracked \ {mp},
          dismMounted |-> dismMounted \ {mp}]
    ELSE [ret |-> "False", ran |-> TRUE, tracked |-> tracked \ {mp},
          dismMounted |-> dismMounted]

\* WimHandler.unmount_wim(mount_point): an untracked mount point returns
\* True at once; else DISM /Unmount-Wim runs: success forgets the mount
\* point and returns True, failure runs _force_cleanup_mount (DISM
\* /Cleanup-Wim), keeps the mount point tracked and returns False.
UnmountWimResult(mp, dism) ==
    IF mp \notin tracked
    THEN [ret |-> "True", ran |-> FALSE, tracked |-> tracked, dismMounted |-> dismMounted]
    ELSE IF dism = "ok" /\ mp \in dismMounted
    THEN [ret |-> "True", ran |-> TRUE, tracked |-> tracked \ {mp},
          dismMounted |-> dismMounted \ {mp}]
    ELSE [ret |-> "False", ran |-> TRUE, tracked |-> tracked,
          dismMounted |-> dismMounted]

\* A call of unmount_wim, on its own or by cleanup_all_mounts for one of
\* the mount points it found tracked.
HandlerUnmountWim(mp, dism) ==
    /\ LET r == UnmountWimResult(mp, dism)
       IN  /\ tracked' = r.tracked
           /\ dismMounted' = r.dismMounted
           /\ held' = IF r.ret = "True" THEN held \ {mp} ELSE held
           /\ handlerCall' = [NoHandlerCall EXCEPT !.op = "unmount", !.mp = mp,
                                                   !.ret = r.ret]
    /\ UNCHANGED <<jobVars, bootVars, aggVars, mountVars, execVars, resolveVars,
                   storeVars, castVars, dismVars, cliVars, liveVars, replyVars,
                   windowVars, connVars, confVars>>

\* Mutant: the export is started whatever the unmount returned.
FinalizeAndExportWim_ExportsAnyway(mp, dism, source_exists, export) ==
    /\ LET r == UnmountWimResult(mp, dism)
       IN  /\ tracked' = r.tracked
           /\ dismMounted' = r.dismMounted
           /\ held' = IF r.ret = "True" THEN held \ {mp} ELSE held
           /\ handlerCall' =
                [op |-> "finalize", mp |-> mp, unmount |-> r.ret,
                 export |-> IF ~source_exists THEN "no_source" ELSE export,
                 file |-> source_exists /\ export = "ok",
                 ret |-> IF source_exists /\ export = "ok"
                         THEN "Path" ELSE "DismError"]
    /\ UNCHANGED <<jobVars, bootVars, aggVars, mountVars, execVars, resolveVars,
                   storeVars, castVars, dismVars, cliVars, liveVars, replyVars,
                   windowVars, connVars, confVars>>

\* WimWorkflow.finalize_and_export_wim: unmount_wim with commit; when it
\* returns False, DismError is raised; else export_wim runs: a missing
\* source raises, a DISM /Export-Image that succeeds leaves the destination
\* file, one that fails has the destination file removed and raises.
FinalizeAndExportWim(mp, dism, source_exists, export) ==
    /\ LET r == UnmountWimResult(mp, dism)
       IN  /\ tracked' = r.tracked
           /\ dismMounted' = r.dismMounted
           /\ held' = IF r.ret = "True" THEN held \ {mp} ELSE held
           /\ handlerCall' =
                IF r.ret = "False"
                THEN [op |-> "finalize", mp |-> mp, unmount |-> "False",
                      export |-> "none", file |-> FALSE, ret |-> "DismError"]
                ELSE [op |-> "finalize", mp |-> mp, unmount |-> "True",
                      export |-> IF ~source_exists THEN "no_source" ELSE export,
                      file |-> source_exists /\ export = "ok",
                      ret |-> IF source_exists /\ export = "ok"
                              THEN "Path" ELSE "DismError"]
    /\ UNCHANGED <<jobVars, bootVars, aggVars, mountVars, execVars, resolveVars,
                   storeVars, castVars, dismVars, cliVars, liveVars, replyVars,
                   windowVars, connVars, confVars>>

\* WimHandler.cleanup_all_mounts: unmount_wim for every tracked mount point,
\* one after the other; `ok` are those whose DISM call succeeds.
CleanupAllMounts(ok) ==
    /\ tracked # {}
    /\ ok \subseteq tracked \cap dismMounted
    /\ tracked' = tracked \ ok
    /\ dismMounted' = dismMounted \ ok
    /\ held' = held \ ok
    /\ handlerCall' = [NoHandlerCall EXCEPT !.op = "cleanup",
                          !.ret = IF ok = tracked THEN "SUCCESS" ELSE "FAILED"]
    /\ UNCHANGED <<jobVars, bootVars, aggVars, mountVars, execVars, resolveVars,
                   storeVars, castVars, dismVars, cliVars, liveVars, replyVars,
                   windowVars, connVars, confVars>>

InitHandler ==
    /\ tracked = {}
    /\ dismMounted = {}
    /\ held = {}
    /\ handlerCall = NoHandlerCall

\* ------------------------------------------- the send loop of a broadcast

\* The WebSocket connections that may register while the process runs.
Connections == 1..MaxConnections

NoSendLoop == [running |-> FALSE, next |-> 1, start |-> {}, removed |-> {},
               sends |-> [c \in Connections |-> 0], disconnected |-> {}]

\* list.remove(x): the list without the first occurrence of x.
ListRemove(list, x) ==
    LET Keep(y) == y # x IN SelectSeq(list, Keep)

\* JobStatus.add_connection: the accepted websocket is appended.
WsConnect(c) ==
    /\ c \notin accepted
    /\ connections' = Append(connections, c)
    /\ accepted' = accepted \cup {c}
    /\ UNCHANGED sendLoop
    /\ UNCHANGED <<jobVars, bootVars, aggVars, mountVars, execVars, resolveVars,
                   storeVars, castVars, dismVars, cliVars, liveVars, replyVars,
                   windowVars, handlerVars, confVars>>

\* JobStatus.remove_connection, run by the websocket endpoint when its
\* client has gone: the websocket is taken out of the list.
WsDisconnect(c) ==
    /\ \E i \in 1..Len(connections) : connections[i] = c
    /\ connections' = ListRemove(connections, c)
    /\ sendLoop' = IF sendLoop.running
                   THEN [sendLoop EXCEPT !.removed = @ \cup {c}]
                   ELSE sendLoop
    /\ UNCHANGED accepted
    /\ UNCHANGED <<jobVars, bootVars, aggVars, mountVars, execVars, resolveVars,
                   storeVars, castVars, dismVars, cliVars, liveVars, replyVars,
                   windowVars, handlerVars, confVars>>

\* _send_to_all_connections(message) is entered: with no connection it
\* returns, else `for connection in self.active_connections` starts.
SendLoopStart ==
    /\ ~sendLoop.running
    /\ connections # <<>>
    /\ sendLoop' = [NoSendLoop EXCEPT !.running = TRUE,
                       !.start = {connections[i] : i \in 1..Len(connections)}]
    /\ UNCHANGED <<connections, accepted>>
    /\ UNCHANGED <<jobVars, bootVars, aggVars, mountVars, execVars, resolveVars,
                   storeVars, castVars, dismVars, cliVars, liveVars, replyVars,
                   windowVars, handlerVars, confVars>>

\* One round of the loop: the list iterator yields the element at its
\* index in the list as it is now, and `await connection.send_text(...)`
\* returns or raises; other coroutines run while it is awaited.
SendLoopStep(ok) ==
    /\ sendLoop.running
    /\ sendLoop.next <= Len(connections)
    /\ LET c == connections[sendLoop.next]
       IN  sendLoop' = [sendLoop EXCEPT
                           !.next = @ + 1,
                           !.sends[c] = @ + 1,
                           !.disconnected = IF ok THEN @ ELSE @ \cup {c}]
    /\ UNCHANGED <<connections, accepted>>
    /\ UNCHANGED <<jobVars, bootVars, aggVars, mountVars, execVars, resolveVars,
                   storeVars, castVars, dismVars, cliVars, liveVars, replyVars,
                   windowVars, handlerVars, confVars>>

\* The iterator is exhausted: the connections whose send raised are removed
\* from the list.
SendLoopEnd ==
    /\ sendLoop.running
    /\ sendLoop.next > Len(connections)
    /\ connections' = LET Keep(y) == y \notin sendLoop.disconnected
                      IN  SelectSeq(connections, Keep)
    /\ sendLoop' = [sendLoop EXCEPT !.running = FALSE]
    /\ UNCHANGED accepted
    /\ UNCHANGED <<jobVars, bootVars, aggVars, mountVars, execVars, resolveVars,
                   storeVars, castVars, dismVars, cliVars, liveVars, replyVars,
                   windowVars, handlerVars, confVars>>

InitConnections ==
    /\ connections = <<>>
    /\ accepted = {}
    /\ sendLoop = NoSendLoop

\* ------------------------------------- configuration load of one build

\* The OS ids a build request can carry (BuildRequest.os_id is any int) and
\* the OS ids a device descriptor can list (OSSupport.osId is positive).
RequestOsIds == 0..MaxOsId
DeviceOsIds == 1..MaxOsId

NoConfBuild == [pc |-> "idle", os_id |-> 0, supported |-> {}, wim_exists |-> FALSE,
                status |-> "none", step_number |-> 0,
                discovered |-> FALSE, copied |-> FALSE, mounted |-> FALSE]

\* Python's truth value of an int, as `if self.selectedOsId` takes it.
Truthy(n) == n # 0

\* KassiaConfig.validate_os_compatibility: ValueError when a device and a
\* selected OS id are given and the device does not list the id.
ValidateOsCompatibility(os_id, supported) ==
    IF Truthy(os_id) /\ os_id \notin supported THEN "ValueError" ELSE "ok"

\* ConfigLoader.create_kassia_config for a device and build configuration
\* that load: the model validator, then validate_configuration, whose only
\* error is a missing WIM file of the selected OS.
CreateKassiaConfig(os_id, supported, wim_exists) ==
    IF ValidateOsCompatibility(os_id, supported) # "ok" THEN "ValueError"
    ELSE IF Truthy(os_id) /\ ~wim_exists THEN "ValueError"
    ELSE "ok"

\* POST /api/build and the task's first statement: the job is running at
\* step 1, "Loading configuration".
ConfRequest(os_id, supported, wim_exists) ==
    /\ confBuild.pc = "idle"
    /\ confBuild' = [NoConfBuild EXCEPT !.pc = "config", !.os_id = os_id,
                        !.supported = supported, !.wim_exists = wim_exists,
                        !.status = "running", !.step_number = 1]
    /\ UNCHANGED <<jobVars, bootVars, aggVars, mountVars, execVars, resolveVars,
                   storeVars, castVars, dismVars, cliVars, liveVars, replyVars,
                   windowVars, handlerVars, connVars>>

\* create_kassia_config returns and step 2 is written, or it raises and the
\* except clause of the build job marks the job failed.
ConfLoad ==
    /\ confBuild.pc = "config"
    /\ confBuild' =
         IF CreateKassiaConfig(confBuild.os_id, confBuild.supported,
                               confBuild.wim_exists) = "ok"
         THEN [confBuild EXCEPT !.pc = "discovery", !.step_number = 2]
         ELSE [confBuild EXCEPT !.pc = "done", !.status = "failed"]
    /\ UNCHANGED <<jobVars, bootVars, aggVars, mountVars, execVars, resolveVars,
                   storeVars, castVars, dismVars, cliVars, liveVars, replyVars,
                   windowVars, handlerVars, connVars>>

\* The asset provider is asked for the SBI, the drivers and the updates;
\* without an SBI the workflow marks the job failed.
ConfDiscover(sbi) ==
    /\ confBuild.pc = "discovery"
    /\ confBuild' =
         IF sbi
         THEN [confBuild EXCEPT !.pc = "prepare", !.discovered = TRUE, !.step_number = 2]
         ELSE [confBuild EXCEPT !.pc = "done", !.discovered = TRUE, !.step_number = 3,
                                !.status = "failed"]
    /\ UNCHANGED <<jobVars, bootVars, aggVars, mountVars, execVars, resolveVars,
                   storeVars, castVars, dismVars, cliVars, liveVars, replyVars,
                   windowVars, handlerVars, connVars>>

\* prepare_wim_for_modification copies the image to the temp directory, then
\* mount_wim_for_modification mounts the copy; either may raise.
ConfStageReturns(ok) ==
    /\ confBuild.pc \in {"prepare", "mount"}
    /\ confBuild' =
         IF ~ok THEN [confBuild EXCEPT !.pc = "done", !.status = "failed"]
         ELSE IF confBuild.pc = "prepare"
         THEN [confBuild EXCEPT !.pc = "mount", !.copied = TRUE, !.step_number = 3]
         ELSE [confBuild EXCEPT !.pc = "done", !.mounted = TRUE, !.step_number = 4]
    /\ UNCHANGED <<jobVars, bootVars, aggVars, mountVars, execVars, resolveVars,
                   storeVars, castVars, dismVars, cliVars, liveVars, replyVars,
                   windowVars, handlerVars, connVars>>

InitMore ==
    /\ confBuild = NoConfBuild
    /\ InitConnections
    /\ reply = NoReply
    /\ mountWindow = "before"
    /\ InitHandler

InitDism ==
    /\ dismRunning = {}
    /\ dismLoop = NoDismLoop

InitBroadcast ==
    /\ queue = <<>>
    /\ initialized = FALSE
    /\ built = NoBuilt

InitStore ==
    /\ storeGen = "none"
    /\ jobsT = <<>>
    /\ logsT = <<>>
    /\ io = NoIo
    /\ InitBroadcast
    /\ InitDism
    /\ InitCli
    /\ storeUp = TRUE
    /\ InitMore

\* ------------------------------------------- concurrent builds, one mountPoint

\* Builds running at once, each with its own WimHandler, all given
\* build_config.mountPoint.
MountJobs == 1..MaxMountJobs

\* WimHandler.mount_wim up to the DISM call: the mount point is created and
\* the handler's own mounted_images is consulted.
MountWim(j) ==
    /\ mountPc[j] = "start"
    /\ mountPc' = [mountPc EXCEPT ![j] =
                      IF mountedImages[j] THEN "using" ELSE "dism_mount"]
    /\ UNCHANGED <<mountDir, mountedImages, jobVars, bootVars, aggVars,
                   execVars, resolveVars, storeVars, extVars>>

\* DISM /Mount-Wim returns: it mounts on a free path and may fail on any; a
\* failure starts _cleanup_failed_mount.
DismMountReturns(j) ==
    /\ mountPc[j] = "dism_mount"
    /\ \/ /\ mountDir = 0
          /\ mountDir' = j
          /\ mountedImages' = [mountedImages EXCEPT ![j] = TRUE]
          /\ mountPc' = [mountPc EXCEPT ![j] = "using"]
       \/ /\ mountPc' = [mountPc EXCEPT ![j] = "cleanup_failed"]
          /\ UNCHANGED <<mountDir, mountedImages>>
    /\ UNCHANGED <<jobVars, bootVars, aggVars,
                   execVars, resolveVars, storeVars, extVars>>

\* _cleanup_failed_mount: DISM /Unmount-Wim /MountDir:mountPoint /Discard
\* returns, errors ignored; mount_wim then raises DismError.
CleanupFailedMountReturns(j) ==
    /\ mountPc[j] = "cleanup_failed"
    /\ mountDir' \in {0, mountDir}
    /\ mountPc' = [mountPc EXCEPT ![j] = "done"]
    /\ UNCHANGED <<mountedImages, jobVars, bootVars, aggVars,
                   execVars, resolveVars, storeVars, extVars>>

\* WimHandler.unmount_wim up to the DISM call, from finalize_and_export_wim
\* (commit) or from cleanup_all_mounts (discard).
UnmountWim(j) ==
    /\ mountPc[j] = "using"
    /\ mountPc' = [mountPc EXCEPT ![j] =
                      IF mountedImages[j] THEN "dism_unmount" ELSE "done"]
    /\ UNCHANGED <<mountDir, mountedImages, jobVars, bootVars, aggVars,
                   execVars, resolveVars, storeVars, extVars>>

\* DISM /Unmount-Wim returns: success untracks the mount, failure leaves it
\* tracked and unmount_wim returns False.
DismUnmountReturns(j) ==
    /\ mountPc[j] = "dism_unmount"
    /\ \/ /\ mountDir # 0
          /\ mountDir' = 0
          /\ mountedImages' = [mountedImages EXCEPT ![j] = FALSE]
       \/ UNCHANGED <<mountDir, mountedImages>>
    /\ mountPc' = [mountPc EXCEPT ![j] = "done"]
    /\ UNCHANGED <<jobVars, bootVars, aggVars,
                   execVars, resolveVars, storeVars, extVars>>

InitMount ==
    /\ mountDir = 0
    /\ mountPc = [j \in MountJobs |-> "start"]
    /\ mountedImages = [j \in MountJobs |-> FALSE]

\* ---------------------------------------------------------- specifications

InitJobState ==
    /\ pc = [j \in Jobs |-> "idle"]
    /\ args = [j \in Jobs |-> [skip_drivers |-> FALSE, skip_updates |-> FALSE]]
    /\ assets = [j \in Jobs |-> NoAssets]
    /\ wf = [j \in Jobs |-> NoWorkflow]
    /\ stepWrites = [j \in Jobs |-> <<>>]
    /\ raised = [j \in Jobs |-> NoExc]
    /\ cleanups = [j \in Jobs |-> <<>>]
    /\ stages = [j \in Jobs |-> <<>>]
    /\ serverUp = TRUE

InitIntegrators ==
    /\ drvStats = NewStats("drivers")
    /\ updStats = NewStats("updates")
    /\ calls = 0
    /\ lastCall = NoCall

\* The web process after startup with an empty jobs table.
Init ==
    /\ db = <<>>
    /\ booted = TRUE
    /\ stored0 = <<>>
    /\ InitJobState
    /\ InitIntegrators
    /\ InitMount
    /\ InitSingle
    /\ InitResolve
    /\ InitStore

Next ==
    \/ \E j \in Jobs, sd \in BOOLEAN, su \in BOOLEAN : StartBuild(j, sd, su)
    \/ \E j \in Jobs : TaskStart(j)
    \/ \E j \in Jobs : LoadConfig(j)
    \/ \E j \in Jobs : DiscoverAndStart(j)
    \/ \E j \in Jobs : PrepareReturns(j)
    \/ \E j \in Jobs : MountReturns(j)
    \/ \E j \in Jobs : DriversReturn(j)
    \/ \E j \in Jobs : UpdatesReturn(j)
    \/ \E j \in Jobs : ExportReturns(j)
    \/ \E j \in Jobs : CleanupReturns(j)
    \/ \E j \in Jobs : EmergencyCleanupReturns(j)
    \/ \E j \in Jobs : CancelJob(j)
    \/ Shutdown

Spec == Init /\ [][Next]_vars

\* A process starting on the jobs table an earlier process left behind.
StoredSizes == 0..(DefaultLimit + ExtraStored)

InitBoot ==
    /\ \E n \in StoredSizes, fill \in {"completed", "created"} :
         \E R \in SUBSET ({1, 2, n - 1, n} \cap (1..n)) :
            db = [id \in 1..n |-> StoredRow(id, IF id \in R THEN "running" ELSE fill)]
    /\ stored0 = db
    /\ booted = FALSE
    /\ InitJobState
    /\ InitIntegrators
    /\ InitMount
    /\ InitSingle
    /\ InitResolve
    /\ InitStore

NextBoot == LoadJobsFromDatabase

SpecBoot == InitBoot /\ [][NextBoot]_vars

\* The integration managers, called on fresh or reused integrators.
NextIntegration ==
    \/ IntegrateDriversForDevice
    \/ IntegrateUpdatesForOs
    \/ NewIntegrators

SpecIntegration == Init /\ [][NextIntegration]_vars

\* The integration managers called more than once on the same integrators.
NextReuse ==
    \/ IntegrateDriversForDevice
    \/ IntegrateUpdatesForOs
    \/ IntegrateAgain

SpecReuse == Init /\ [][NextReuse]_vars

\* The command-line run of one build.
NextCli ==
    \/ \E sd \in BOOLEAN, su \in BOOLEAN : CreateCliJob(sd, su)
    \/ CliLoadConfig
    \/ CliDiscover
    \/ CliWorkflowStart
    \/ CliStageReturns
    \/ CliReport
    \/ CliKeyboardInterrupt

SpecCli == Init /\ [][NextCli]_vars

\* One step of job j's background task: the call it awaits returns, raises
\* or times out, and the task runs on to its next await.
TaskStep(j) ==
    \/ TaskStart(j)
    \/ LoadConfig(j)
    \/ DiscoverAndStart(j)
    \/ PrepareReturns(j)
    \/ MountReturns(j)
    \/ DriversReturn(j)
    \/ UpdatesReturn(j)
    \/ ExportReturns(j)
    \/ CleanupReturns(j)
    \/ EmergencyCleanupReturns(j)

\* The web process with a store whose writes can fail.
NextLive ==
    \/ Next
    \/ StoreFails
    \/ StoreRecovers

\* The event loop keeps running a started task, and every call the task
\* awaits returns, raises or times out: a task step that stays possible is
\* taken.
SpecLive == Init /\ [][NextLive]_vars /\ \A j \in Jobs : WF_vars(TaskStep(j))

\* The web process receiving cancel requests for known and unknown ids.
NextCancel ==
    \/ \E j \in Jobs, sd \in BOOLEAN, su \in BOOLEAN : StartBuild(j, sd, su)
    \/ \E j \in Jobs : TaskStep(j)
    \/ \E id \in RequestIds : CancelEndpoint(id)

SpecCancel == Init /\ [][NextCancel]_vars

\* One asset integrated by a new integrator.
NextSingle ==
    \/ IntegrateSingleDriverCall
    \/ IntegrateSingleUpdateCall
    \/ NewIntegrators

SpecSingle == Init /\ [][NextSingle]_vars

\* The asset discovery of one build.
NextResolve ==
    \/ GetDrivers
    \/ GetUpdates
    \/ GetAssetsAgain

SpecResolve == Init /\ [][NextResolve]_vars

\* The job store under the calls a process makes on it.
NextStore ==
    \/ \E gen \in {"app", "Python"} : InitJobDatabase(gen)
    \/ \E id \in StoreIds, job \in JobRecords : StoreCreateJob(id, job)
    \/ \E id \in StoreIds, updates \in JobUpdates, ok \in BOOLEAN :
          StoreUpdateJob(id, updates, ok)
    \/ \E id \in StoreIds : StoreGetJob(id)
    \/ \E id \in StoreIds : StoreDeleteJob(id)
    \/ \E id \in StoreIds : StoreAddJobLog(id)

SpecStore == Init /\ [][NextStore]_vars

\* JobStatus under one build's updates and logs, with the event loop.
NextBroadcast ==
    \/ \E gen \in {"app", "Python"} : InitJobDatabase(gen)
    \/ \E id \in StoreIds : StoreCreateJob(id, CreatedJob)
    \/ AddConnection
    \/ \E id \in StoreIds, ok \in BOOLEAN :
          JobStatusUpdateJob(id, [status |-> "running", started_at |-> "ts"], ok)
    \/ \E id \in StoreIds : JobStatusAddJobLog(id)
    \/ \E id \in StoreIds : StoreGetJob(id)
    \/ BroadcastWorker

SpecBroadcast == Init /\ [][NextBroadcast]_vars

\* The DISM invocations of one job's integration loops.
NextDism ==
    \/ DismStart
    \/ \E p \in DismAssets : DismExits(p)
    \/ DismTimesOut

SpecDism == Init /\ [][NextDism]_vars

\* One run from its mount to the start of its unmount, with the DISM
\* subprocesses of its driver and update stages.
NextWindow ==
    \/ WindowMountReturns
    \/ WindowDismStart
    \/ \E p \in DismAssets : DismExits(p)
    \/ DismTimesOut
    \/ WindowUnmountBegins

SpecWindow == Init /\ [][NextWindow]_vars

\* One build request from POST /api/build to its mount.
NextConf ==
    \/ \E os_id \in RequestOsIds, supported \in SUBSET DeviceOsIds,
          wim_exists \in BOOLEAN : ConfRequest(os_id, supported, wim_exists)
    \/ ConfLoad
    \/ \E sbi \in BOOLEAN : ConfDiscover(sbi)
    \/ \E ok \in BOOLEAN : ConfStageReturns(ok)

SpecConf == Init /\ [][NextConf]_vars

\* Connections coming and going around the send loop of one broadcast.
NextSend ==
    \/ \E c \in Connections : WsConnect(c)
    \/ \E c \in Connections : WsDisconnect(c)
    \/ SendLoopStart
    \/ \E ok \in BOOLEAN : SendLoopStep(ok)
    \/ SendLoopEnd

SpecSend == Init /\ [][NextSend]_vars

\* Calls made one after the other on one WimHandler.
NextHandler ==
    \/ \E mp \in MountPoints, wim_exists \in BOOLEAN, dism \in DismOutcomes,
          verified \in BOOLEAN : HandlerMountWim(mp, wim_exists, dism, verified)
    \/ \E mp \in MountPoints, dism \in DismOutcomes : HandlerUnmountWim(mp, dism)
    \/ \E mp \in MountPoints, dism \in DismOutcomes, source_exists \in BOOLEAN,
          export \in DismOutcomes : FinalizeAndExportWim(mp, dism, source_exists, export)
    \/ \E ok \in SUBSET MountPoints : CleanupAllMounts(ok)

SpecHandler == Init /\ [][NextHandler]_vars

\* Builds started concurrently against the same mount point.
NextMount ==
    \/ \E j \in MountJobs : MountWim(j)
    \/ \E j \in MountJobs : DismMountReturns(j)
    \/ \E j \in MountJobs : CleanupFailedMountReturns(j)
    \/ \E j \in MountJobs : UnmountWim(j)
    \/ \E j \in MountJobs : DismUnmountReturns(j)

SpecMount == Init /\ [][NextMount]_vars

\* ------------------------------------------------------------------ claims

InFlight == {"config", "discovery", "prepare", "mount", "drivers", "updates",
             "export", "cleanup"}

\* s ends with the tokens of t.
EndsWith(s, t) ==
    /\ Len(t) <= Len(s)
    /\ SubSeq(s, Len(s) - Len(t) + 1, Len(s)) = t

\* C1: once a job's status is completed, failed or cancelled, no step of any
\* operation changes that job's status or error.
C1_TerminalAbsorbing ==
    [][\A j \in DOMAIN db :
         db[j].status \in Terminal =>
            /\ j \in DOMAIN db'
            /\ db'[j].status = db[j].status
            /\ db'[j].error = db[j].error]_vars

\* C2: after startup reconciliation, every job stored as running when the
\* process started is failed with the restart error, whatever the size of
\* the jobs table.
C2_AllRunningReconciled ==
    booted =>
        \A id \in DOMAIN stored0 :
            stored0[id].status = "running" =>
                /\ db[id].status = "failed"
                /\ db[id].error = MsgRestart

\* C3: the step numbers written for a job during one run are strictly
\* increasing.
C3_StepNumbersIncrease ==
    \A j \in Jobs :
        \A i, k \in DOMAIN stepWrites[j] :
            i < k => stepWrites[j][i] < stepWrites[j][k]

\* C7: the step in which a stage raises leaves the job failed with an error
\* that carries the exception's message, and from then on the job starts no
\* stage: neither the failing one again nor a later one.
C7_StageErrorFailsJob ==
    [][\A j \in Jobs :
         /\ (raised[j] = NoExc /\ raised'[j] # NoExc /\ j \in DOMAIN db') =>
               /\ db'[j].status = "failed"
               /\ EndsWith(db'[j].error, raised'[j].msg)
               /\ pc'[j] \notin InFlight
         /\ raised[j] # NoExc =>
               /\ stages'[j] = stages[j]
               /\ pc'[j] \notin InFlight]_vars

C7_Witness ==
    \E j \in Jobs :
        /\ raised[j].stage = "mount"
        /\ j \in DOMAIN db
        /\ db[j].status = "failed"
        /\ pc[j] = "done"
        /\ stages[j] = <<"config", "discovery", "prepare", "mount">>

\* C8: a job that failed because a stage raised while the temp copy or the
\* mount existed has had an emergency cleanup attempt, made before its
\* status became failed.
C8_CleanupBeforeFailed ==
    \A j \in Jobs :
        (/\ raised[j] # NoExc
         /\ raised[j].hadResources
         /\ j \in DOMAIN db
         /\ db[j].status = "failed") =>
            \E i \in DOMAIN cleanups[j] : cleanups[j][i].seen # "failed"

\* C9 as stated: the stored error of a job failed by an exception equals the
\* exception's message.
C9_ErrorEqualsMessage ==
    \A j \in Jobs :
        (j \in DOMAIN db /\ db[j].status = "failed" /\ raised[j] # NoExc) =>
            db[j].error = raised[j].msg

\* C9 as amended: the stored error of a job failed by an exception is the
\* exception's message verbatim when the build job catches it, and that
\* message behind the fixed prefix of its error class when the WIM workflow
\* catches it; a failed emergency cleanup leaves it in place.
C9_ErrorKeepsMessage ==
    \A j \in Jobs :
        (j \in DOMAIN db /\ db[j].status = "failed" /\ raised[j] # NoExc) =>
            db[j].error =
                IF raised[j].stage \in {"config", "discovery"} THEN raised[j].msg
                ELSE IF raised[j].type = "DismError" THEN DismPrefix \o raised[j].msg
                ELSE UnexpectedPrefix \o raised[j].msg

C9_Witness ==
    \E j \in Jobs :
        /\ j \in DOMAIN db
        /\ db[j].status = "failed"
        /\ raised[j].type = "DismError"
        /\ cleanups[j] # <<>>
        /\ cleanups[j][1].outcome = "raised"
        /\ pc[j] = "done"

\* C10: a job cancelled while its build is in flight gets no further stage
\* update and its build starts no further stage.
C10_CancelStopsStages ==
    [][\A j \in Jobs :
         (j \in DOMAIN db /\ db[j].status = "cancelled" /\ pc[j] \in InFlight) =>
            /\ stepWrites'[j] = stepWrites[j]
            /\ stages'[j] = stages[j]]_vars

\* The assets of the latest call that fail: by a failed result (an executor
\* error, a type no executor takes) or by an exception.
FailingAssets ==
    {i \in DOMAIN lastCall.compatible :
        \/ lastCall.outcomes[lastCall.compatible[i].name] # "ok"
        \/ MethodOf(lastCall.kind, lastCall.compatible[i].type) = "SKIPPED"}

FailedResults ==
    {i \in DOMAIN lastCall.ret.results : ~lastCall.ret.results[i].success}

\* C4: when exactly one of the N compatible assets of a call fails, every
\* compatible asset is attempted, there are N results and the summary's
\* failed count is 1.
C4_OneFailureDoesNotStopTheRest ==
    (/\ lastCall.kind # "none"
     /\ lastCall.mount = "ok"
     /\ Cardinality(FailingAssets) = 1) =>
        /\ \A i \in DOMAIN lastCall.compatible :
              \E k \in DOMAIN lastCall.attempted :
                 lastCall.attempted[k] = lastCall.compatible[i].name
        /\ Len(lastCall.ret.results) = Len(lastCall.compatible)
        /\ lastCall.ret.has_counts
        /\ lastCall.ret.failed_count = 1

C4_Witness ==
    /\ lastCall.kind = "drivers"
    /\ lastCall.mount = "ok"
    /\ Len(lastCall.compatible) = 2
    /\ Cardinality(FailingAssets) = 1
    /\ Len(lastCall.ret.results) = 2
    /\ lastCall.ret.results[1].method = "ERROR"
    /\ lastCall.ret.results[2].success

\* C5: whatever the order of the input list, the assets are attempted, and
\* their results returned, in non-decreasing install order.
C5_ResultsInInstallOrder ==
    (lastCall.kind # "none" /\ lastCall.mount = "ok") =>
        /\ Len(lastCall.ret.results) = Len(lastCall.compatible)
        /\ Len(lastCall.attempted) = Len(lastCall.compatible)
        /\ \A i \in DOMAIN lastCall.compatible :
              \E k \in DOMAIN lastCall.attempted :
                 lastCall.attempted[k] = lastCall.compatible[i].name
        /\ \A i, k \in DOMAIN lastCall.ret.results :
              /\ lastCall.ret.results[i].asset.name = lastCall.attempted[i]
              /\ i < k => lastCall.ret.results[i].asset.order
                             <= lastCall.ret.results[k].asset.order

C5_Witness ==
    /\ lastCall.kind = "updates"
    /\ lastCall.mount = "ok"
    /\ Len(lastCall.compatible) = 2
    /\ lastCall.compatible[1].order > lastCall.compatible[2].order
    /\ lastCall.attempted = <<2, 1>>
    /\ lastCall.ret.results[1].asset.name = 2

\* C6 as stated: the summary's success flag is true exactly when no result
\* is a failed one.
C6_SuccessIffNoFailedResult ==
    lastCall.kind # "none" =>
        (lastCall.ret.success <=> FailedResults = {})

\* The integrator of the latest call raised: it was handed assets and the
\* mount point is missing or has no Windows directory.
IntegratorRaised ==
    lastCall.compatible # <<>> /\ lastCall.mount # "ok"

\* C6 as amended: the summary's success flag is true exactly when the
\* integrator raised no error and no result is a failed one; a raised error
\* gives success false with an empty result list.
C6_SuccessIffNoErrorAndNoFailedResult ==
    lastCall.kind # "none" =>
        /\ lastCall.ret.success <=> (~IntegratorRaised /\ FailedResults = {})
        /\ IntegratorRaised => lastCall.ret.results = <<>>

C6_Witness ==
    /\ lastCall.kind = "updates"
    /\ lastCall.mount = "no_windows"
    /\ Len(lastCall.compatible) = 2
    /\ ~lastCall.ret.success
    /\ lastCall.ret.results = <<>>

\* C11, first part: a cancel request is accepted only for a job that is not
\* yet terminal, so no step turns a completed or failed job into a
\* cancelled one.
C11_CancelOnlyBeforeTerminal ==
    [][\A j \in DOMAIN db :
         (db[j].status # "cancelled" /\ j \in DOMAIN db' /\ db'[j].status = "cancelled")
            => db[j].status \notin Terminal]_vars

\* C12: a build that is using its mount (between its successful mount and
\* its own unmount) has its own image mounted at the mount point: no other
\* build's mount, failed-mount cleanup or emergency cleanup has mounted over
\* it or unmounted it.
C12_MountExclusive ==
    \A j \in MountJobs :
        mountPc[j] \in {"using", "dism_unmount"} => mountDir = j

\* C13: whenever the integrator is run on a mount path without the Windows
\* directory, it fails with DismError before any asset is attempted and
\* before anything is written under the mount path.
C13_NoWindowsFailsFast ==
    (lastCall.kind # "none" /\ lastCall.compatible # <<>> /\ lastCall.mount = "no_windows") =>
        /\ lastCall.error = "DismError"
        /\ ~lastCall.ret.success
        /\ lastCall.attempted = <<>>
        /\ lastCall.ret.results = <<>>
        /\ ~lastCall.wrote

C13_Witness ==
    /\ lastCall.kind = "drivers"
    /\ Len(lastCall.compatible) = 2
    /\ lastCall.mount = "no_windows"
    /\ lastCall.error = "DismError"
    /\ lastCall.attempted = <<>>
    /\ ~lastCall.wrote

\* The DISM executor of the latest single-asset call ran the utility and the
\* utility exited non-zero with the given phrase in its output.
DismExitedWith(phrase) ==
    /\ single.kind # "none"
    /\ single.result.method = "DISM"
    /\ single.env.files > 0
    /\ single.kind = "updates" => ~single.env.empty
    /\ single.env.dism.how = "exit"
    /\ single.env.dism.returncode # 0
    /\ Has(Lower(single.env.dism.text), phrase)

\* C14: the strategy recorded in a single asset's result follows from its
\* type tag alone, whatever the executor meets: INF, MSU and CAB give DISM,
\* APPX, EXE and MSI give YUNONA, and any other tag gives a SKIPPED result
\* with a message; a result is returned in every case.
C14_StrategyByTypeAlone ==
    single.kind # "none" =>
        /\ single.result.method =
              IF single.kind = "drivers"
              THEN (IF single.type = "inf" THEN "DISM"
                    ELSE IF single.type \in {"appx", "exe"} THEN "YUNONA"
                    ELSE "SKIPPED")
              ELSE (IF single.type \in {"msu", "cab"} THEN "DISM"
                    ELSE IF single.type \in {"exe", "msi"} THEN "YUNONA"
                    ELSE "SKIPPED")
        /\ single.result.method = "SKIPPED" =>
              /\ ~single.result.success
              /\ single.result.message # <<>>
        /\ single.result.duration = "set"

C14_Witness ==
    /\ single.kind = "updates"
    /\ single.type = "other"
    /\ single.env.dism.how = "exception"
    /\ single.result.method = "SKIPPED"
    /\ single.result.message = <<"Unknown update type: ", "other">>

\* C15: when DISM exits non-zero with "not applicable", the DISM executor
\* (of a driver or of an update) returns a successful result.
C15_NotApplicableIsSuccess ==
    DismExitedWith(NotApplicable) => single.result.success

\* C16: when DISM exits non-zero with "already installed" (and not "not
\* applicable"), the result is a success by DISM whose message contains
\* "already installed", for a driver as for an update.
C16_AlreadyInstalledIsSuccess ==
    (DismExitedWith(AlreadyInstalled) /\ ~DismExitedWith(NotApplicable)) =>
        /\ single.result.success
        /\ single.result.method = "DISM"
        /\ Has(single.result.message, AlreadyInstalled)

\* C17: every result in the list a manager returns has its duration set.
C17_DurationAlwaysSet ==
    \A i \in DOMAIN lastCall.ret.results :
        lastCall.ret.results[i].duration # "None"

\* C18: after a successful staging (driver or update) the staging directory
\* holds the copied payload, exactly one install script and exactly one
\* metadata sidecar file.
C18_StagedPayloadScriptSidecar ==
    (single.kind # "none" /\ single.result.method = "YUNONA" /\ single.result.success) =>
        /\ single.result.staged.payload >= 1
        /\ Cardinality(single.result.staged.scripts) = 1
        /\ Cardinality(single.result.staged.sidecars) = 1

\* The descriptors of the latest discovery that are in its output.
Returned == {resolved.out[i].name : i \in DOMAIN resolved.out}

OsCompatible(config) ==
    config.supported_os = {} \/ resolved.os_id \in config.supported_os

C20_DeviceRestrictionHolds ==
    resolved.kind = "drivers" =>
        \A i \in DOMAIN resolved.out :
            resolved.out[i].supported_devices # {} =>
                resolved.out[i].supported_devices \cap resolved.device # {}

PyEq(a, b) ==
    \/ a = b
    \/ {a, b} = {"True", "1"}
    \/ {a, b} = {"False", "0"}

\* C22: a get that follows a create or an update returns, in every field
\* that was written, a value equal to the written one.
C22_WrittenFieldsReadBack ==
    (io.op = "get" /\ io.ok /\ io.read # <<>>) =>
        \A f \in DOMAIN io.written : PyEq(io.read[f], io.written[f])

\* C28: every row of job_logs names a job that is in the jobs table.
C28_LogsReferenceJobs ==
    \A i \in DOMAIN logsT : logsT[i].job_id \in DOMAIN jobsT

\* C23: the pending broadcasts stay below a capacity (here: the number of
\* broadcasts the producers may leave pending before the event loop runs).
C23_PendingBelowCapacity == Len(queue) < MaxPending

\* The snapshot a step builds: the job_update message JobStatus.update_job
\* queues, or the one a broadcast_job_update task sends.
BuiltNow ==
    IF Len(queue') > Len(queue) /\ queue'[Len(queue')].type = "job_update"
    THEN {queue'[Len(queue')]}
    ELSE IF queue # <<>> /\ queue' = Tail(queue) /\ Head(queue).type = "task"
            /\ built'.type = "job_update"
    THEN {built'}
    ELSE {}

\* The timestamps of job id's log entries.
LogTimes(logs, id) ==
    {logs[i].timestamp : i \in {k \in DOMAIN logs : logs[k].job_id = id}}

\* C24: a snapshot carries every job field and at most RecentLogsLimitPython
\* of the job's log entries; when it leaves entries out, it carries at least
\* RecentLogsLimit and every entry left out is older than every entry
\* carried.
C24_SnapshotHasLatestLogs ==
    [][\A m \in BuiltNow :
          LET carried == {m.logs[i] : i \in DOMAIN m.logs}
              left == LogTimes(logsT', m.job_id) \ carried
          IN  /\ DOMAIN m.data = JobFields
              /\ Len(m.logs) <= RecentLogsLimitPython
              /\ Cardinality(carried) = Len(m.logs)
              /\ carried \subseteq LogTimes(logsT', m.job_id)
              /\ left # {} => Len(m.logs) >= RecentLogsLimit
              /\ \A t \in left : \A c \in carried : t < c]_vars

\* C26: a read of the job that follows an update_job whose store write
\* failed returns the values that update named.
C26_FailedWriteStillVisible ==
    (io.op = "get" /\ ~io.ok /\ io.read # <<>>) =>
        \A f \in DOMAIN io.written : PyEq(io.read[f], io.written[f])

\* C25: at most one DISM subprocess of the job is running at any time.
C25_OneDismAtATime == Cardinality(dismRunning) <= 1

\* The per-strategy counters of an integrator's statistics, summed.
StrategySum(stats) ==
    IF "inf" \in DOMAIN stats
    THEN stats.inf + stats.appx + stats.exe
    ELSE stats.msu + stats.cab + stats.exe + stats.msi

\* C27: after every call the statistics of the integrator that was called
\* are those of that call: total = successful + failed, and the per-strategy
\* counters sum to successful.
C27_SummaryOfLatestCall ==
    \A stats \in {drvStats, updStats} :
        /\ stats.total = stats.successful + stats.failed
        /\ StrategySum(stats) = stats.successful

\* The status changes the lifecycle names: created to running, running to a
\* terminal status, and the cancel of a job that is still created.
LifecycleMoves ==
    {<<"created", "running">>, <<"created", "cancelled">>} \cup
    {<<"running", t>> : t \in Terminal}

\* C29: the status of the command-line run's job changes only along created
\* to running and running to completed, failed or cancelled (or created to
\* cancelled); in particular never from created directly to failed.
C29_StatusAlongLifecycle ==
    [][(cli.status # "none" /\ cli'.status # cli.status) =>
          <<cli.status, cli'.status>> \in LifecycleMoves]_vars

\* The background task of job j has started executing.
BuildStarted(j) == pc[j] \notin {"idle", "queued"}

\* C30: every job whose background build has started eventually has a
\* terminal status in the store, also when a write to the store fails.
C30_StartedBuildEndsTerminal ==
    \A j \in Jobs :
        BuildStarted(j) ~> (j \in DOMAIN db /\ db[j].status \in Terminal)

\* The aggregator's summary had success false and the orchestrator's read of
\* it raised in the driver or update stage of job j.
FailedSummaryRaised(j) ==
    raised[j].stage \in {"drivers", "updates"} /\ raised[j].msg = MsgKeyError

\* C31: a summary with success false, whatever its cause, does not make the
\* job failed: no job is failed with the error of reading such a summary.
C31_FailedSummaryDoesNotFailJob ==
    \A j \in Jobs :
        FailedSummaryRaised(j) =>
            ~(j \in DOMAIN db /\ db[j].status = "failed"
                /\ db[j].error = UnexpectedErrorMsg(MsgKeyError))

\* C32: a cancel request for an id that is not in the store is answered
\* with 404 and leaves the store as it was; it is never answered with
\* status cancelled.
C32_UnknownIdNotFound ==
    [][(reply' # reply /\ reply'.id \notin DOMAIN db) =>
          (reply'.answer = "404" /\ db' = db)]_vars

\* C33: a job with status completed has its step number equal to its total
\* number of steps and its progress equal to 100.
C33_CompletedAtLastStep ==
    \A j \in DOMAIN db :
        db[j].status = "completed" =>
            (db[j].step_number = db[j].total_steps /\ db[j].progress = 100)

\* C34: a job's completed_at is set exactly when its status is completed,
\* failed or cancelled, however cancel requests interleave with the
\* background task's updates.
C34_CompletedAtIffTerminal ==
    \A j \in DOMAIN db :
        (db[j].completed_at # None) <=> (db[j].status \in Terminal)

\* The update stage has handed an asset to DISM (or has tried to).
UpdateIntegrationStarted ==
    \E u \in DismUpdates : u \in dismRunning \/ dismLoop.at > u

\* C35: all driver integration is over before any update integration
\* starts, and DISM works on drivers and updates only while the image is
\* mounted: after the verified mount and before the unmount begins.
C35_IntegrationInsideMountWindow ==
    /\ dismRunning # {} => mountWindow = "mounted"
    /\ UpdateIntegrationStarted => dismRunning \cap DismDrivers = {}

\* C36: the export is attempted only after the unmount with commit has
\* returned success; when that unmount fails, no export is attempted, the
\* workflow raises DismError and no export file exists.
C36_ExportOnlyAfterUnmount ==
    handlerCall.op = "finalize" =>
        /\ handlerCall.export # "none" => handlerCall.unmount = "True"
        /\ handlerCall.unmount = "False" =>
              /\ handlerCall.export = "none"
              /\ handlerCall.ret = "DismError"
              /\ ~handlerCall.file

\* C36 witness: finalize_and_export_wim was called on a tracked mount whose
\* unmount failed.
C36_Witness ==
    /\ handlerCall.op = "finalize"
    /\ handlerCall.unmount = "False"
    /\ handlerCall.mp \in tracked

\* C37: the mount points the handler tracks are exactly those on which a
\* mount was reported successful and no unmount has been reported
\* successful since: a failed mount is not tracked, a failed unmount is.
C37_TrackedIsHeld ==
    /\ tracked = held
    /\ (handlerCall.op = "mount" /\ handlerCall.ret = "DismError")
          => (handlerCall.mp \in tracked <=> handlerCall.mp \in held)
    /\ (handlerCall.op = "unmount" /\ handlerCall.ret = "False")
          => handlerCall.mp \in tracked

\* C37 witness: an unmount has failed on one tracked mount point after a
\* mount has succeeded on another.
C37_Witness ==
    /\ handlerCall.op = "unmount"
    /\ handlerCall.ret = "False"
    /\ handlerCall.mp \in tracked
    /\ Cardinality(tracked) >= 2

\* The connections registered from the start of the finished send loop to
\* its end.
StayedRegistered == sendLoop.start \ sendLoop.removed

\* C38: when the send loop of a broadcast has ended, every connection that
\* stayed registered throughout it has been sent the message exactly once.
C38_EachStayingConnectionSentOnce ==
    (~sendLoop.running /\ sendLoop.start # {}) =>
        \A c \in StayedRegistered : sendLoop.sends[c] = 1

\* C39: a build whose OS id is not among its device's supported OS ids
\* fails when the configuration is loaded: the job is failed at step 1 and
\* no asset discovery, temp copy or mount is made for it.
C39_UnsupportedOsFailsAtConfig ==
    (confBuild.pc \notin {"idle", "config"}
        /\ confBuild.os_id \notin confBuild.supported) =>
        /\ confBuild.status = "failed"
        /\ confBuild.step_number = 1
        /\ ~confBuild.discovered /\ ~confBuild.copied /\ ~confBuild.mounted

====
